---- MODULE Spec2Model ----
(***************************************************************************)
(* Versioned project-file storage of qfieldcloud (local-directory port).   *)
(*                                                                         *)
(* A logical file `key` is stored as a container directory `key + ".d"`    *)
(* that holds one physical file `{version_id}_{basename}` per version      *)
(* (core/utils_local.py).  The deletion and purge operations of            *)
(* core/utils2/storage.py work on the version objects that the listing     *)
(* functions return.  Strings (file names, keys, physical names) are       *)
(* sequences of one-character strings so that the code's string            *)
(* operations (strip, split, glob, regex) are computed, not assumed.       *)
(***************************************************************************)
EXTENDS Integers, Sequences, FiniteSets, TLC

(***************************************************************************)
(* Bounds of the model.                                                    *)
(***************************************************************************)
NumProcs == 2
MaxUploads == 3
MaxLen == 1
MaxKeep == 2

Procs == 1..NumProcs
Bytes == {7}
Contents == UNION {[1..n -> Bytes] : n \in 0..MaxLen}
KeepCounts == 0..MaxKeep
VersionIds == 1..MaxUploads

(***************************************************************************)
(* Strings.                                                                *)
(***************************************************************************)
DigitChars == <<"0", "1", "2", "3", "4", "5", "6", "7", "8", "9">>
LowerLetters ==
    {"a", "b", "c", "d", "e", "f", "g", "h", "i", "j", "k", "l", "m",
     "n", "o", "p", "q", "r", "s", "t", "u", "v", "w", "x", "y", "z"}
UpperLetters == {"M", "Q"}
WordChars ==
    LowerLetters \cup UpperLetters \cup {"_"}
        \cup {DigitChars[i] : i \in 1..10}

\* str.lower() on one character
LowerChar(c) == IF c = "M" THEN "m" ELSE IF c = "Q" THEN "q" ELSE c
Lower(s) == [i \in 1..Len(s) |-> LowerChar(s[i])]

\* str(n) for n >= 0
RECURSIVE IntToStr(_)
IntToStr(n) ==
    IF n < 10 THEN <<DigitChars[n + 1]>>
    ELSE IntToStr(n \div 10) \o <<DigitChars[(n % 10) + 1]>>

DigitValue(c) == CHOOSE d \in 0..9 : DigitChars[d + 1] = c
IsDigits(s) == Len(s) > 0 /\ \A i \in 1..Len(s) : \E d \in 0..9 : DigitChars[d + 1] = s[i]

\* int(s) for a string of decimal digits
RECURSIVE StrToInt(_)
StrToInt(s) ==
    IF Len(s) = 1 THEN DigitValue(s[1])
    ELSE 10 * StrToInt(SubSeq(s, 1, Len(s) - 1)) + DigitValue(s[Len(s)])

\* s.split(sep)[0]: the part of s before the first sep, or s itself
SplitFirst(s, sep) ==
    IF \E i \in 1..Len(s) : s[i] = sep
    THEN LET i == CHOOSE j \in 1..Len(s) :
                      s[j] = sep /\ \A h \in 1..(j - 1) : s[h] # sep
         IN  SubSeq(s, 1, i - 1)
    ELSE s

\* s.strip(chars): drops leading and trailing characters that are in chars
RECURSIVE LStrip(_, _)
LStrip(s, chars) ==
    IF Len(s) > 0 /\ s[1] \in chars THEN LStrip(Tail(s), chars) ELSE s
RECURSIVE RStrip(_, _)
RStrip(s, chars) ==
    IF Len(s) > 0 /\ s[Len(s)] \in chars
    THEN RStrip(SubSeq(s, 1, Len(s) - 1), chars)
    ELSE s
Strip(s, chars) == RStrip(LStrip(s, chars), chars)

\* PurePath(name).suffix: from the last dot, unless that dot leads or ends the name
Suffix(name) ==
    IF \E i \in 2..(Len(name) - 1) : name[i] = "."
           /\ \A j \in (i + 1)..Len(name) : name[j] # "."
    THEN LET i == CHOOSE h \in 2..(Len(name) - 1) :
                      name[h] = "." /\ \A j \in (h + 1)..Len(name) : name[j] # "."
         IN  SubSeq(name, i, Len(name))
    ELSE <<>>

\* glob("*.*"): the name holds a dot
MatchesStarDotStar(name) == \E i \in 1..Len(name) : name[i] = "."

\* the characters in code-point order, for string comparison
AsciiChars ==
    <<"-", ".", "/">> \o DigitChars \o <<"M", "Q", "_">>
        \o <<"a", "b", "c", "d", "e", "f", "g", "h", "i", "j", "k", "l", "m",
              "n", "o", "p", "q", "r", "s", "t", "u", "v", "w", "x", "y", "z">>
CharCode(c) == CHOOSE i \in 1..Len(AsciiChars) : AsciiChars[i] = c

StartsWith(s, prefix) ==
    Len(s) >= Len(prefix) /\ SubSeq(s, 1, Len(prefix)) = prefix

(***************************************************************************)
(* The project and its logical files.                                      *)
(***************************************************************************)
\* a UUID-shaped project id: 8-4-4-4-12
ProjectId == [i \in 1..36 |-> IF i \in {9, 14, 19, 24} THEN "-" ELSE "a"]

ReportQgs == <<"r", ".", "q", "g", "s">>
MakeFile == <<"M", "k">>
NotesMd == <<"n", ".", "m", "d">>
Filenames == {ReportQgs, MakeFile, NotesMd}

\* settings.PROJECTFILES_ROOT, the directory get_projects_dir returns
ProjectsDir == <<"/", "s">>

ProjectsSlash == <<"p", "r", "o", "j", "e", "c", "t", "s", "/">>
FilesSlash == <<"/", "f", "i", "l", "e", "s", "/">>
DotD == <<".", "d">>

\* key of a project file in the storage key-space (storage.py:424)
StorageKey(filename) == ProjectsSlash \o ProjectId \o FilesSlash \o filename

\* re.match(r"^projects/[\w]{8}(-[\w]{4}){3}-[\w]{12}/.+$", key)
ProjectKeyShapeOK(key) ==
    /\ Len(key) >= Len(ProjectsSlash) + 36 + 2
    /\ StartsWith(key, ProjectsSlash)
    /\ \A i \in 1..36 :
          LET c == key[Len(ProjectsSlash) + i]
          IN  IF i \in {9, 14, 19, 24} THEN c = "-" ELSE c \in WordChars
    /\ key[Len(ProjectsSlash) + 37] = "/"

\* is_qgis_project_file: the extension is .qgs or .qgz, in any case
is_qgis_project_file(filename) ==
    Lower(Suffix(filename)) \in {<<".", "q", "g", "s">>, <<".", "q", "g", "z">>}

\* the shape check on the storage key of each project file, computed once
KeyShapeTable == [f \in Filenames |-> ProjectKeyShapeOK(StorageKey(f))]

(***************************************************************************)
(* State.                                                                  *)
(*   dirs       the container directories that exist (by logical file)     *)
(*   store      the physical files of each container: name, bytes, mtime   *)
(*   clock      the filesystem clock; every write gets a later mtime       *)
(*   up         each uploader's position inside upload_fileobj             *)
(*   file_storage_bytes, project_filename   persisted Project fields       *)
(*   auditlog   committed audit-log entries                                *)
(*   last       the operation that completed last: its outcome and the     *)
(*              versions it deleted                                        *)
(*   maxEver    history: the highest version id ever written, per file     *)
(*   joined     one call of safe_join: its arguments and its outcome       *)
(*   bucket     the object versions of the storage bucket, with the last   *)
(*              deletion by prefix or key made on it                       *)
(*   stream     a byte stream handed to the hash functions: its type,      *)
(*              length and read position, and the digests returned         *)
(*   tree       a directory tree and what list_project_files found in it   *)
(*   cmd        a run of the deleteorphanedfiles command: the ids of the   *)
(*              Project rows, the command run, what it reported and the    *)
(*              deletions it called                                        *)
(*   pkg        the PackageJob rows of the project, and for every caller   *)
(*              of PackageView.post its position and its response          *)
(*   rd         a listing in progress: its position, what it has read of   *)
(*              one file, and the store as it was at its steps             *)
(***************************************************************************)
VARIABLES dirs, store, clock, up, file_storage_bytes, project_filename,
          auditlog, last, maxEver, joined, bucket, rd, stream, tree, cmd, pkg

vars == <<dirs, store, clock, up, file_storage_bytes, project_filename,
          auditlog, last, maxEver, joined, bucket, rd, stream, tree, cmd, pkg>>

None == [none |-> TRUE]
IndexError == [raised |-> "IndexError"]
Idle == [pc |-> "idle", file |-> <<>>, empty |-> TRUE, count |-> 0]
NoOp == [op |-> "init", result |-> "ok", deleted |-> {}]
NoJoin == [base |-> <<>>, paths |-> <<>>, done |-> TRUE, raised |-> FALSE,
           path |-> <<>>]
NoRead == [pc |-> "idle", file |-> <<>>, error |-> FALSE, fname |-> <<>>,
           latest |-> None, fnames |-> {}, entry |-> None, pre |-> {}, seen |-> {}]
NoTree == [dirs |-> {}, files |-> {}, done |-> FALSE, all_files |-> {}]
NoCmd == [db |-> {}, op |-> "init", limit |-> 0, report |-> <<>>, calls |-> <<>>,
          raised |-> "no"]
NoPkg == [jobs |-> {}, pc |-> [p \in Procs |-> "idle"],
          response |-> [p \in Procs |-> "none"]]
NoStream == [kind |-> "file", len |-> 0, pos |-> 0, digests |-> <<>>]
NoBucket == [versions |-> {}, markers |-> {}, op |-> "init", raised |-> "no"]
\* the variables of the specifications of single calls
calls == <<joined, bucket, rd, stream, tree, cmd, pkg>>

(***************************************************************************)
(* Reading the store (core/utils_local.py).                                *)
(***************************************************************************)
\* physical name of a version: str(count) + "_" + PurePath(key).parts[-1]
VersionFileName(count, filename) == IntToStr(count) \o <<"_">> \o filename

\* the physical names the store can hold (StoredIds: the version ids of the
\* containers get_all_versions is called on by itself), and per name its
\* version id, int(name.split("_")[0]), and whether glob("*.*") matches it
StoredIds == {1, 2, 3, 9, 10}
PhysicalNames ==
    {VersionFileName(c, f) : c \in 1..(MaxUploads + 1) \cup StoredIds, f \in Filenames}
VersionIdTable == [n \in PhysicalNames |-> StrToInt(SplitFirst(n, "_"))]
GlobTable == [n \in PhysicalNames |-> MatchesStarDotStar(n)]

\* _get_version_id
get_version_id(fname) == VersionIdTable[fname]

\* a sequence holding the members of a set of physical files, ascending by id
RECURSIVE SortByVersionId(_)
SortByVersionId(files) ==
    IF files = {} THEN <<>>
    ELSE LET m == CHOOSE f \in files :
                      \A g \in files : get_version_id(f.fname) <= get_version_id(g.fname)
         IN  <<m>> \o SortByVersionId(files \ {m})

\* get_all_versions: the files matching *.*, sorted by version id
get_all_versions(content) ==
    SortByVersionId({f \in content : GlobTable[f.fname]})

\* get_latest_version taking the first listed version instead of the last
get_latest_version_first(content) ==
    LET versions == get_all_versions(content)
    IN  IF Len(versions) > 0 THEN versions[1] ELSE None

\* get_latest_version: the last of get_all_versions, or None
get_latest_version(content) ==
    LET versions == get_all_versions(content)
    IN  IF Len(versions) > 0 THEN versions[Len(versions)] ELSE None

\* md5 digest of a byte string
Md5(data) == <<"md5", data>>

\* sha256 digest of a byte string
Sha256(data) == <<"sha256", data>>

\* check_file_path(path) for the key of a project file: None without container,
\* else the sha256 of the latest version; open(None) raises TypeError when the
\* container lists no version
TypeError == [raised |-> "TypeError"]
check_file_path(ds, st, filename) ==
    IF filename \notin ds THEN None
    ELSE LET latest == get_latest_version(st[filename])
         IN  IF latest = None THEN TypeError ELSE [sha256 |-> Sha256(latest.data)]

\* _create_file_object (file: the logical file whose container holds f)
create_file_object(f, file, name, is_latest) ==
    [file |-> file,
     name |-> name,
     version_id |-> get_version_id(f.fname),
     last_modified |-> f.mtime,
     size |-> Len(f.data),
     md5sum |-> Md5(f.data),
     is_latest |-> is_latest]

\* list_project_files: the containers (directories with suffix .d) found
ContainerName(filename) == filename \o DotD
HasContainerSuffix == [f \in Filenames |-> Lower(Suffix(ContainerName(f))) = DotD]
list_project_files(ds) == {f \in ds : HasContainerSuffix[f]}

\* str(path)[start:] of the container of `filename`, whose path is
\* <projects dir>/<project id>/files/<filename>.d
ContainerPath(filename) ==
    ProjectsDir \o <<"/">> \o ProjectId \o FilesSlash \o ContainerName(filename)
SliceFrom(s, start) == SubSeq(s, start + 1, Len(s))

\* the name list_files gives a file of the project (strip_prefix = "<id>/files/")
ListNameTable ==
    [f \in Filenames |->
        SliceFrom(ContainerPath(f),
                  Len(ProjectsDir \o <<"/">> \o ProjectId
                          \o <<"/", "f", "i", "l", "e", "s">>))]
ListName(filename) == ListNameTable[filename]

\* the name get_project_file_with_versions gives: str(file)[len("<id>/files/"):]
FileNameTable ==
    [f \in Filenames |-> SliceFrom(ContainerPath(f), Len(ProjectId \o FilesSlash))]

\* file.name.strip(".d") of each container
StrippedNameTable == [f \in Filenames |-> Strip(ContainerName(f), {".", "d"})]

\* a < b for strings, as Python compares them
RECURSIVE StrLess(_, _)
StrLess(a, b) ==
    IF Len(b) = 0 THEN FALSE
    ELSE IF Len(a) = 0 THEN TRUE
    ELSE IF a[1] = b[1] THEN StrLess(Tail(a), Tail(b))
    ELSE CharCode(a[1]) < CharCode(b[1])

\* files.sort(key = lambda f: f.name)
RECURSIVE SortByName(_)
SortByName(objs) ==
    IF objs = {} THEN <<>>
    ELSE LET m == CHOOSE o \in objs :
                      \A q \in objs : q = o \/ ~StrLess(q.name, o.name)
         IN  <<m>> \o SortByName(objs \ {m})

\* list_files: the latest version of every container that has a version, by name
list_files(ds, st) ==
    SortByName(
        {create_file_object(get_latest_version(st[f]), f, ListName(f), TRUE) :
            f \in {g \in list_project_files(ds) : get_latest_version(st[g]) # None}})

\* get_project_files: list_files under <id>/files/
get_project_files(ds, st) == list_files(ds, st)

\* get_project_files_count: the number of containers found
get_project_files_count(ds) == Cardinality(list_project_files(ds))

\* the versions list built for one file: every version, the latest one flagged
VersionObjects(content, file, name, latest_id) ==
    LET versions == get_all_versions(content)
    IN  [i \in 1..Len(versions) |->
            create_file_object(versions[i], file, name,
                               get_version_id(versions[i].fname) = latest_id)]

\* list_files_with_versions: (latest, versions) of every listed file
list_files_with_versions(ds, st) ==
    LET files == list_files(ds, st)
    IN  [i \in 1..Len(files) |->
            [latest |-> files[i],
             versions |-> VersionObjects(st[files[i].file], files[i].file,
                                         files[i].name, files[i].version_id)]]

\* get_project_file_with_versions: None, (latest, versions), or IndexError when
\* the container found holds no version (all_versions[-1] on an empty list)
get_project_file_with_versions(ds, st, filename) ==
    LET files == {f \in list_project_files(ds) : StrippedNameTable[f] = filename}
    IN  IF files = {} THEN None
        ELSE LET file == CHOOSE f \in files : TRUE
                 all_versions == get_all_versions(st[file])
                 name == FileNameTable[file]
             IN  IF Len(all_versions) = 0 THEN IndexError
                 ELSE LET latest_version == all_versions[Len(all_versions)]
                          latest_obj == create_file_object(latest_version, file,
                                                           name, TRUE)
                      IN  [latest |-> latest_obj,
                           versions |-> VersionObjects(st[file], file, name,
                                                       latest_obj.version_id)]

\* FileObjectWithVersions.total_size
RECURSIVE SumSizes(_)
SumSizes(versions) ==
    IF Len(versions) = 0 THEN 0
    ELSE versions[1].size + SumSizes(Tail(versions))
total_size(file) == SumSizes(file.versions)

(***************************************************************************)
(* The version objects as core/utils2/storage.py reads them.               *)
(* storage.py obtains them from qfieldcloud.core.utils, and the bucket     *)
(* from get_s3_bucket; the listing and upload functions of this port are   *)
(* those of core/utils_local.py.  The attributes storage.py reads that a   *)
(* FileObject does not carry (id, e_tag, the storage key under projects/)  *)
(* are given by the FileObject's version_id, md5sum and the key the file   *)
(* was uploaded with.                                                      *)
(***************************************************************************)
\* version.id
VersionId(v) == v.version_id
\* version.key, version._data.key: the storage key of the version's file
VersionKey(v) == StorageKey(v.file)
\* re.match(<project key shape>, version.key)
VersionKeyShapeOK(v) == KeyShapeTable[v.file]
\* version.e_tag
VersionETag(v) == v.md5sum
\* version.display: the modification time, formatted
VersionDisplay(v) == v.last_modified

\* Project.storage_size: the bytes of all stored versions of the project's files
RECURSIVE SumTotalSizes(_)
SumTotalSizes(files) ==
    IF Len(files) = 0 THEN 0
    ELSE total_size(files[1]) + SumTotalSizes(Tail(files))
StorageSize(ds, st) == SumTotalSizes(list_files_with_versions(ds, st))

\* delete_version_permanently: removes the one physical file of that version
delete_version_permanently(st, v) ==
    [st EXCEPT ![v.file] = {f \in @ : get_version_id(f.fname) # VersionId(v)}]

(***************************************************************************)
(* Initial state: an empty store, nothing persisted.                       *)
(***************************************************************************)
Init ==
    /\ dirs = {}
    /\ store = [f \in Filenames |-> {}]
    /\ clock = 0
    /\ up = [p \in Procs |-> Idle]
    /\ file_storage_bytes = 0
    /\ project_filename = None
    /\ auditlog = {}
    /\ last = NoOp
    /\ maxEver = [f \in Filenames |-> 0]
    /\ joined = NoJoin
    /\ bucket = NoBucket
    /\ rd = NoRead
    /\ stream = NoStream
    /\ tree = NoTree
    /\ cmd = NoCmd
    /\ pkg = NoPkg

(***************************************************************************)
(* upload_project_file -> upload_fileobj, one step per access to the       *)
(* directory: the listing, the second listing that yields the id, the      *)
(* write.                                                                  *)
(***************************************************************************)
\* utils_local.py:267-271  makedirs, count_list = get_all_versions(dir_path)
UploadStart(p, filename) ==
    /\ up[p].pc = "idle"
    /\ clock + Cardinality({q \in Procs : up[q].pc # "idle"}) < MaxUploads
    /\ dirs' = dirs \cup {filename}
    /\ up' = [up EXCEPT ![p] =
                 [pc |-> "listed", file |-> filename,
                  empty |-> (Len(get_all_versions(store[filename])) = 0),
                  count |-> 0]]
    /\ UNCHANGED <<store, clock, file_storage_bytes, project_filename,
                   auditlog, last, maxEver, calls>>

\* the version id upload_fileobj chooses: 1 for an empty listing, else the id of
\* get_latest_version + 1; 0 stands for the error raised when the second
\* listing finds no version (_get_version_id(None))
NextCount(empty, content) ==
    IF empty THEN 1
    ELSE IF get_latest_version(content) = None THEN 0
    ELSE get_version_id(get_latest_version(content).fname) + 1

\* utils_local.py:272-275
UploadCount(p) ==
    /\ up[p].pc = "listed"
    /\ LET count == NextCount(up[p].empty, store[up[p].file])
       IN  IF count = 0
           THEN /\ up' = [up EXCEPT ![p] = Idle]
                /\ last' = [NoOp EXCEPT !.op = "upload", !.result = "AttributeError"]
           ELSE /\ up' = [up EXCEPT ![p].pc = "counted", ![p].count = count]
                /\ UNCHANGED last
    /\ UNCHANGED <<dirs, store, clock, file_storage_bytes, project_filename,
                   auditlog, maxEver, calls>>

\* the directory after open(final_path, "wb") and write: the file is created, or
\* an existing file of that name is replaced
WriteVersion(content, fname, data, mtime) ==
    {f \in content : f.fname # fname}
        \cup {[fname |-> fname, data |-> data, mtime |-> mtime]}

\* utils_local.py:277-281  data: the bytes file.read() returns
UploadWrite(p, data) ==
    /\ up[p].pc = "counted"
    /\ LET filename == up[p].file
           count == up[p].count
       IN  IF filename \notin dirs
           THEN /\ last' = [NoOp EXCEPT !.op = "upload",
                                        !.result = "FileNotFoundError"]
                /\ UNCHANGED <<store, clock, maxEver>>
           ELSE /\ store' = [store EXCEPT ![filename] =
                                WriteVersion(@, VersionFileName(count, filename),
                                             data, clock + 1)]
                /\ clock' = clock + 1
                /\ maxEver' = [maxEver EXCEPT ![filename] =
                                  IF count > @ THEN count ELSE @]
                /\ last' = [NoOp EXCEPT !.op = "upload"]
    /\ up' = [up EXCEPT ![p] = Idle]
    /\ UNCHANGED <<dirs, file_storage_bytes, project_filename, auditlog, calls>>

(***************************************************************************)
(* delete_project_file_version_permanently (storage.py:472-551).           *)
(***************************************************************************)
\* storage.py:504-523  the loop over file.versions that collects the versions to
\* delete; raised is TRUE when one of its assertions fails
RECURSIVE CollectVersions(_, _, _, _)
CollectVersions(versions, version_id, include_older, collected) ==
    IF Len(versions) = 0 THEN [raised |-> FALSE, versions |-> collected]
    ELSE LET file_version == Head(versions)
         IN  IF VersionId(file_version) = version_id
             THEN IF include_older
                  THEN CollectVersions(Tail(versions), version_id, include_older,
                                       Append(collected, file_version))
                  ELSE [raised |-> FALSE,
                        versions |-> Append(collected, file_version)]
             ELSE IF Len(collected) > 0
                  THEN IF /\ include_older
                          /\ collected[Len(collected)].last_modified
                                 > file_version.last_modified
                       THEN CollectVersions(Tail(versions), version_id, include_older,
                                            Append(collected, file_version))
                       ELSE [raised |-> TRUE, versions |-> collected]
                  ELSE CollectVersions(Tail(versions), version_id, include_older,
                                       collected)

\* storage.py:528-537  the check made on every version before it is deleted
VersionDeletable(v) == VersionKeyShapeOK(v) /\ VersionId(v) # 0

\* the audit-log entry of one deleted version: old digest -> null
AuditEntry(filename, suffix, e_tag) ==
    [name |-> filename, suffix |-> suffix, old |-> e_tag, new |-> None]

\* storage.py:525-547  the transaction: per version the check, the audit entry,
\* the deletion.  fail_at = i > 0: the audit write or the deletion of the i-th
\* version raises (database or storage failure).  An error rolls the audit
\* entries back; files already deleted stay deleted.
RECURSIVE DeleteInTransaction(_, _, _, _, _, _)
DeleteInTransaction(st, filename, versions, entries, deleted, fail_at) ==
    IF Len(versions) = 0
    THEN [raised |-> "no", st |-> st, entries |-> entries, deleted |-> deleted]
    ELSE LET v == Head(versions)
         IN  IF ~VersionDeletable(v)
             THEN [raised |-> "Suspicious", st |-> st, entries |-> {},
                   deleted |-> deleted]
             ELSE IF fail_at = 1
             THEN [raised |-> "StorageError", st |-> st, entries |-> {},
                   deleted |-> deleted]
             ELSE DeleteInTransaction(
                      delete_version_permanently(st, v), filename, Tail(versions),
                      entries \cup {AuditEntry(filename, <<VersionDisplay(v)>>,
                                               VersionETag(v))},
                      deleted \cup {<<v.file, VersionId(v)>>},
                      IF fail_at = 0 THEN 0 ELSE fail_at - 1)

\* the only-version test comparing the number of versions with 0 instead of 1
IsOnlyVersionNoVersions(file, version_id) ==
    VersionId(file.latest) = version_id /\ Len(file.versions) = 0

\* storage.py:496-502  the requested version is the latest and the only one
IsOnlyVersion(file, version_id) ==
    VersionId(file.latest) = version_id /\ Len(file.versions) = 1

delete_project_file_version_permanently(filename, version_id, include_older) ==
    LET file == get_project_file_with_versions(dirs, store, filename)
        op == [NoOp EXCEPT !.op = "delete_version"]
        Fail(result) ==
            /\ last' = [op EXCEPT !.result = result]
            /\ UNCHANGED <<store, auditlog, file_storage_bytes>>
    IN  /\ IF file = None THEN Fail("NotFound")
           ELSE IF file = IndexError THEN Fail("IndexError")
           ELSE IF IsOnlyVersion(file, version_id) THEN Fail("OnlyVersion")
           ELSE LET older == IF VersionId(file.latest) = version_id
                             THEN FALSE ELSE include_older
                    sel == CollectVersions(file.versions, version_id, older, <<>>)
                IN  IF sel.raised THEN Fail("AssertionError")
                    ELSE \E fail_at \in 0..(Len(sel.versions) + 1) :
                         \* fail_at = Len + 1: project.save (storage.py:549),
                         \* after the transaction has committed, raises
                         LET save_fails == fail_at = Len(sel.versions) + 1
                             tx == DeleteInTransaction(store, filename, sel.versions,
                                                       {}, {},
                                                       IF save_fails THEN 0 ELSE fail_at)
                         IN  /\ store' = tx.st
                             /\ auditlog' = auditlog \cup tx.entries
                             /\ IF tx.raised # "no"
                                THEN /\ last' = [op EXCEPT !.result = tx.raised,
                                                           !.deleted = tx.deleted]
                                     /\ UNCHANGED file_storage_bytes
                                ELSE IF save_fails
                                THEN /\ last' = [op EXCEPT !.result = "SaveError",
                                                           !.deleted = tx.deleted]
                                     /\ UNCHANGED file_storage_bytes
                                ELSE /\ last' = [op EXCEPT !.deleted = tx.deleted]
                                     /\ file_storage_bytes' = StorageSize(dirs, tx.st)
        /\ UNCHANGED <<dirs, clock, up, project_filename, maxEver, calls>>

(***************************************************************************)
(* purge_old_file_versions (storage.py:361-409).                           *)
(***************************************************************************)
\* sorted(versions, key=lambda v: v.last_modified, reverse=True): newest first,
\* versions of equal time in their given order
RECURSIVE SortByLastModifiedDesc(_)
SortByLastModifiedDesc(versions) ==
    IF Len(versions) = 0 THEN <<>>
    ELSE LET i == CHOOSE j \in 1..Len(versions) :
                      /\ \A h \in 1..Len(versions) :
                            versions[h].last_modified <= versions[j].last_modified
                      /\ \A h \in 1..(j - 1) :
                            versions[h].last_modified < versions[j].last_modified
         IN  <<versions[i]>>
                 \o SortByLastModifiedDesc(SubSeq(versions, 1, i - 1)
                                               \o SubSeq(versions, i + 1, Len(versions)))

\* the slice starting one version too late
old_versions_to_purge_late(versions, keep_count) ==
    SubSeq(SortByLastModifiedDesc(versions), keep_count + 2, Len(versions))

\* the slice starting one version too early
old_versions_to_purge_early(versions, keep_count) ==
    SubSeq(SortByLastModifiedDesc(versions),
           IF keep_count = 0 THEN 1 ELSE keep_count, Len(versions))

\* storage.py:381-383  sorted(...)[keep_count:]
old_versions_to_purge(versions, keep_count) ==
    SubSeq(SortByLastModifiedDesc(versions), keep_count + 1, Len(versions))

\* the loop without its guard on the latest version
RECURSIVE PurgeVersionsNoGuard(_, _, _)
PurgeVersionsNoGuard(st, old_versions, deleted) ==
    IF Len(old_versions) = 0 THEN [raised |-> "no", st |-> st, deleted |-> deleted]
    ELSE LET old_version == Head(old_versions)
         IN  IF ~VersionKeyShapeOK(old_version)
             THEN [raised |-> "Suspicious", st |-> st, deleted |-> deleted]
             ELSE PurgeVersionsNoGuard(
                      delete_version_permanently(st, old_version), Tail(old_versions),
                      deleted \cup {<<old_version.file, VersionId(old_version)>>})

\* storage.py:391-405  the loop over the versions to purge of one file
RECURSIVE PurgeVersions(_, _, _)
PurgeVersions(st, old_versions, deleted) ==
    IF Len(old_versions) = 0 THEN [raised |-> "no", st |-> st, deleted |-> deleted]
    ELSE LET old_version == Head(old_versions)
         IN  IF old_version.is_latest
             THEN [raised |-> "Latest", st |-> st, deleted |-> deleted]
             ELSE IF ~VersionKeyShapeOK(old_version)
             THEN [raised |-> "Suspicious", st |-> st, deleted |-> deleted]
             ELSE PurgeVersions(delete_version_permanently(st, old_version),
                                Tail(old_versions),
                                deleted \cup {<<old_version.file, VersionId(old_version)>>})

\* storage.py:378-405  the loop over the project's files, in listing order
RECURSIVE PurgeFiles(_, _, _, _)
PurgeFiles(st, files, keep_count, deleted) ==
    IF Len(files) = 0 THEN [raised |-> "no", st |-> st, deleted |-> deleted]
    ELSE LET r == PurgeVersions(st, old_versions_to_purge(Head(files).versions,
                                                          keep_count), deleted)
         IN  IF r.raised # "no" THEN r
             ELSE PurgeFiles(r.st, Tail(files), keep_count, r.deleted)

purge_old_file_versions(keep_count) ==
    LET r == PurgeFiles(store, list_files_with_versions(dirs, store), keep_count, {})
        op == [NoOp EXCEPT !.op = "purge", !.deleted = r.deleted]
    IN  /\ store' = r.st
        /\ IF r.raised # "no"
           THEN /\ last' = [op EXCEPT !.result = r.raised]
                /\ UNCHANGED file_storage_bytes
           ELSE /\ last' = op
                /\ file_storage_bytes' = StorageSize(dirs, r.st)
        /\ UNCHANGED <<dirs, clock, up, project_filename, auditlog, maxEver,
                       calls>>

(***************************************************************************)
(* delete_project_file_permanently (storage.py:444-469).                   *)
(***************************************************************************)
\* _delete_by_key_permanently: every version stored under the key goes, and
\* with the last one the object itself
delete_by_key_permanently(ds, st, file) ==
    [dirs |-> ds \ {file}, store |-> [st EXCEPT ![file] = {}]]

delete_project_file_permanently(filename) ==
    LET file == get_project_file_with_versions(dirs, store, filename)
        op == [NoOp EXCEPT !.op = "delete_file"]
        Fail(result) ==
            /\ last' = [op EXCEPT !.result = result]
            /\ UNCHANGED <<dirs, store, auditlog, project_filename>>
    IN  /\ IF file = None THEN Fail("NotFound")
           ELSE IF file = IndexError THEN Fail("IndexError")
           ELSE IF ~VersionKeyShapeOK(file.latest) THEN Fail("Suspicious")
           ELSE LET after == delete_by_key_permanently(dirs, store, file.latest.file)
                IN  /\ project_filename' =
                           IF is_qgis_project_file(filename) THEN None
                           ELSE project_filename
                    /\ auditlog' = auditlog \cup
                           {AuditEntry(filename, <<"A", "L", "L">>,
                                       VersionETag(file.latest))}
                    /\ dirs' = after.dirs
                    /\ store' = after.store
                    /\ last' = [op EXCEPT !.deleted =
                                   {<<file.latest.file, VersionId(file.versions[i])>> :
                                       i \in 1..Len(file.versions)}]
        /\ UNCHANGED <<clock, up, file_storage_bytes, maxEver, calls>>

(***************************************************************************)
(* The specification: uploads by NumProcs concurrent callers, and the      *)
(* deletion and purge operations, each running to completion.              *)
(***************************************************************************)
Next ==
    \/ \E p \in Procs, f \in Filenames : UploadStart(p, f)
    \/ \E p \in Procs : UploadCount(p)
    \/ \E p \in Procs, d \in Contents : UploadWrite(p, d)
    \/ \E f \in Filenames, v \in VersionIds, o \in BOOLEAN :
          delete_project_file_version_permanently(f, v, o)
    \/ \E k \in KeepCounts : purge_old_file_versions(k)
    \/ \E f \in Filenames : delete_project_file_permanently(f)

Spec == Init /\ [][Next]_vars

(***************************************************************************)
(* The same operations issued by one caller, one after the other.          *)
(***************************************************************************)
NextSeq ==
    \/ \E f \in Filenames : UploadStart(1, f)
    \/ UploadCount(1)
    \/ \E d \in Contents : UploadWrite(1, d)
    \/ \E f \in Filenames, v \in VersionIds, o \in BOOLEAN :
          /\ up[1].pc = "idle"
          /\ delete_project_file_version_permanently(f, v, o)
    \/ \E k \in KeepCounts :
          /\ up[1].pc = "idle"
          /\ purge_old_file_versions(k)
    \/ \E f \in Filenames :
          /\ up[1].pc = "idle"
          /\ delete_project_file_permanently(f)

SpecSeq == Init /\ [][NextSeq]_vars

(***************************************************************************)
(* Uploads only, by NumProcs concurrent callers.                           *)
(***************************************************************************)
NextUploads ==
    \/ \E p \in Procs, f \in Filenames : UploadStart(p, f)
    \/ \E p \in Procs : UploadCount(p)
    \/ \E p \in Procs, d \in Contents : UploadWrite(p, d)

SpecUploads == Init /\ [][NextUploads]_vars

(***************************************************************************)
(* A listing running beside the caller's operations (utils_local.py:       *)
(* 192-257).  The steps are those list_files_with_versions takes for one   *)
(* file: list_files globs the container for the latest version and opens   *)
(* it, and later the versions loop globs the container again and opens     *)
(* every version found.  What list_files returns for the file is known     *)
(* after the second step.  rd.file is the file followed; the caller's      *)
(* operations are those on that file, before and during the listing.       *)
(***************************************************************************)
\* the file of the container that has the name fname now; open() and stat()
\* raise FileNotFoundError when there is none
Opened(content, fname) == {g \in content : g.fname = fname}

\* utils_local.py:210  get_latest_version(f) inside list_files
ListGlobLatest ==
    /\ rd.pc = "idle"
    /\ LET file == rd.file
           latest_version ==
               IF file \in list_project_files(dirs)
               THEN get_latest_version(store[file]) ELSE None
       IN  rd' = [rd EXCEPT !.pc = IF latest_version = None THEN "done" ELSE "globbed",
                            !.fname = IF latest_version = None THEN <<>>
                                      ELSE latest_version.fname,
                            !.pre = store[file],
                            !.seen = store[file]]
    /\ UNCHANGED <<dirs, store, clock, up, file_storage_bytes, project_filename,
                   auditlog, last, maxEver, joined, bucket, stream, tree, cmd, pkg>>

\* utils_local.py:213  _create_file_object(latest_version, name, key, True)
ListCreateLatest ==
    /\ rd.pc = "globbed"
    /\ LET found == Opened(store[rd.file], rd.fname)
           seen == rd.seen \cup store[rd.file]
       IN  IF found = {}
           THEN rd' = [rd EXCEPT !.pc = "done", !.error = TRUE, !.seen = seen]
           ELSE rd' = [rd EXCEPT !.pc = "listed", !.seen = seen,
                                 !.latest =
                                     create_file_object(CHOOSE g \in found : TRUE,
                                                        rd.file, ListName(rd.file),
                                                        TRUE)]
    /\ UNCHANGED <<dirs, store, clock, up, file_storage_bytes, project_filename,
                   auditlog, last, maxEver, joined, bucket, stream, tree, cmd, pkg>>

\* utils_local.py:234  get_all_versions(full_path) inside
\* list_files_with_versions; the glob of a directory that is gone is empty
ListGlobVersions ==
    /\ rd.pc = "listed"
    /\ LET versions == get_all_versions(store[rd.file])
       IN  rd' = [rd EXCEPT !.pc = "globbed2",
                            !.fnames = {versions[i].fname : i \in 1..Len(versions)},
                            !.seen = @ \cup store[rd.file]]
    /\ UNCHANGED <<dirs, store, clock, up, file_storage_bytes, project_filename,
                   auditlog, last, maxEver, joined, bucket, stream, tree, cmd, pkg>>

\* utils_local.py:234-238  the loop creating the file object of every version
ListCreateVersions ==
    /\ rd.pc = "globbed2"
    /\ LET found == {g \in store[rd.file] : g.fname \in rd.fnames}
           seen == rd.seen \cup store[rd.file]
       IN  IF \E n \in rd.fnames : Opened(store[rd.file], n) = {}
           THEN rd' = [rd EXCEPT !.pc = "done", !.error = TRUE, !.seen = seen]
           ELSE rd' = [rd EXCEPT !.pc = "done", !.seen = seen,
                                 !.entry =
                                     [latest |-> rd.latest,
                                      versions |->
                                          VersionObjects(found, rd.file,
                                                         rd.latest.name,
                                                         rd.latest.version_id)]]
    /\ UNCHANGED <<dirs, store, clock, up, file_storage_bytes, project_filename,
                   auditlog, last, maxEver, joined, bucket, stream, tree, cmd, pkg>>

\* delete_objects (utils_local.py:284-294) on the container of one file or,
\* with target = ProjectId, on the directory of the project: shutil.rmtree
delete_objects(target) ==
    /\ IF target = ProjectId
       THEN /\ dirs' = {}
            /\ store' = [f \in Filenames |-> {}]
       ELSE /\ dirs' = dirs \ {target}
            /\ store' = [store EXCEPT ![target] = {}]
    /\ last' = [NoOp EXCEPT !.op = "delete_objects"]
    /\ UNCHANGED <<clock, up, file_storage_bytes, project_filename, auditlog,
                   maxEver, calls>>

InitRead ==
    /\ dirs = {}
    /\ store = [f \in Filenames |-> {}]
    /\ clock = 0
    /\ up = [p \in Procs |-> Idle]
    /\ file_storage_bytes = 0
    /\ project_filename = None
    /\ auditlog = {}
    /\ last = NoOp
    /\ maxEver = [f \in Filenames |-> 0]
    /\ joined = NoJoin
    /\ bucket = NoBucket
    /\ stream = NoStream
    /\ tree = NoTree
    /\ cmd = NoCmd
    /\ pkg = NoPkg
    /\ \E f \in Filenames : rd = [NoRead EXCEPT !.file = f]

Listing == rd.pc # "done"

NextRead ==
    \/ Listing /\ UploadStart(1, rd.file)
    \/ Listing /\ UploadCount(1)
    \/ \E d \in Contents : Listing /\ UploadWrite(1, d)
    \/ \E v \in VersionIds, o \in BOOLEAN :
          /\ Listing /\ up[1].pc = "idle"
          /\ delete_project_file_version_permanently(rd.file, v, o)
    \/ /\ Listing /\ up[1].pc = "idle"
       /\ delete_project_file_permanently(rd.file)
    \/ \E target \in {rd.file, ProjectId} :
          /\ Listing /\ up[1].pc = "idle"
          /\ delete_objects(target)
    \/ ListGlobLatest
    \/ ListCreateLatest
    \/ ListGlobVersions
    \/ ListCreateVersions

SpecRead == InitRead /\ [][NextRead]_vars

(***************************************************************************)
(* get_all_versions (utils_local.py:103-107) called on the container of    *)
(* one file holding any set of versions with ids from StoredIds.           *)
(***************************************************************************)
InitVersions ==
    /\ clock = 0
    /\ up = [p \in Procs |-> Idle]
    /\ file_storage_bytes = 0
    /\ project_filename = None
    /\ auditlog = {}
    /\ last = NoOp
    /\ maxEver = [f \in Filenames |-> 0]
    /\ joined = NoJoin
    /\ bucket = NoBucket
    /\ stream = NoStream
    /\ tree = NoTree
    /\ cmd = NoCmd
    /\ pkg = NoPkg
    /\ \E file \in Filenames, ids \in SUBSET StoredIds :
          /\ dirs = {file}
          /\ store = [f \in Filenames |->
                         IF f = file
                         THEN {[fname |-> VersionFileName(c, f), data |-> <<>>,
                                mtime |-> c] : c \in ids}
                         ELSE {}]
          /\ rd = [NoRead EXCEPT !.file = file]

GetAllVersions ==
    /\ rd.pc = "idle"
    /\ rd' = [rd EXCEPT !.pc = "done", !.entry = get_all_versions(store[rd.file])]
    /\ UNCHANGED <<dirs, store, clock, up, file_storage_bytes, project_filename,
                   auditlog, last, maxEver, joined, bucket, stream, tree, cmd, pkg>>

NextVersions == GetAllVersions

SpecVersions == InitVersions /\ [][NextVersions]_vars

(***************************************************************************)
(* safe_join (core/utils.py:86-118), with posixpath.join and               *)
(* posixpath.normpath as the library computes them.                        *)
(***************************************************************************)
MaxSegLen == 2
MaxSegs == 2

Slash == <<"/">>
DotDot == <<".", ".">>
EtcPasswd ==
    <<".", ".", "/", ".", ".", "/", "e", "t", "c", "/",
      "p", "a", "s", "s", "w", "d">>

\* the bases and the segments safe_join is called with
Bases ==
    {<<"b">>, <<"b", "/">>, <<"/", "b">>, <<"e", "t", "c">>, DotDot, <<>>}
SegChars == {"a", "b", ".", "/"}
Segments ==
    UNION {[1..n -> SegChars] : n \in 0..MaxSegLen} \cup {EtcPasswd}
PathLists == UNION {[1..n -> Segments] : n \in 0..MaxSegs}

EndsWith(s, suffix) ==
    Len(s) >= Len(suffix)
        /\ SubSeq(s, Len(s) - Len(suffix) + 1, Len(s)) = suffix

\* s.split("/")
RECURSIVE SplitSlash(_)
SplitSlash(s) ==
    IF \A i \in 1..Len(s) : s[i] # "/" THEN <<s>>
    ELSE LET i == CHOOSE j \in 1..Len(s) :
                      s[j] = "/" /\ \A h \in 1..(j - 1) : s[h] # "/"
         IN  <<SubSeq(s, 1, i - 1)>> \o SplitSlash(SubSeq(s, i + 1, Len(s)))

\* "/".join(comps)
RECURSIVE JoinSlash(_)
JoinSlash(comps) ==
    IF Len(comps) = 0 THEN <<>>
    ELSE IF Len(comps) = 1 THEN comps[1]
    ELSE comps[1] \o Slash \o JoinSlash(Tail(comps))

\* posixpath.join(a, b)
posixpath_join(a, b) ==
    IF StartsWith(b, Slash) THEN b
    ELSE IF Len(a) = 0 \/ EndsWith(a, Slash) THEN a \o b
    ELSE a \o Slash \o b

\* the number of leading slashes posixpath.normpath keeps: 0, 1, or 2 for
\* exactly two
InitialSlashes(path) ==
    IF ~StartsWith(path, Slash) THEN 0
    ELSE IF StartsWith(path, <<"/", "/">>) /\ ~StartsWith(path, <<"/", "/", "/">>)
    THEN 2 ELSE 1

\* the loop of posixpath.normpath over the components
RECURSIVE NormComps(_, _, _)
NormComps(comps, new_comps, initial_slashes) ==
    IF Len(comps) = 0 THEN new_comps
    ELSE LET comp == Head(comps)
             n == Len(new_comps)
         IN  IF comp = <<>> \/ comp = <<".">>
             THEN NormComps(Tail(comps), new_comps, initial_slashes)
             ELSE IF \/ comp # DotDot
                     \/ (initial_slashes = 0 /\ n = 0)
                     \/ (n > 0 /\ new_comps[n] = DotDot)
             THEN NormComps(Tail(comps), Append(new_comps, comp), initial_slashes)
             ELSE IF n > 0
             THEN NormComps(Tail(comps), SubSeq(new_comps, 1, n - 1), initial_slashes)
             ELSE NormComps(Tail(comps), new_comps, initial_slashes)

\* posixpath.normpath(path)
posixpath_normpath(path) ==
    IF Len(path) = 0 THEN <<".">>
    ELSE LET initial_slashes == InitialSlashes(path)
             joined_comps == JoinSlash(NormComps(SplitSlash(path), <<>>, initial_slashes))
             out == [i \in 1..initial_slashes |-> "/"] \o joined_comps
         IN  IF Len(out) = 0 THEN <<".">> ELSE out

\* utils.py:102-106  one turn of the loop: final_path after joining `path`
JoinStep(final_path, path) ==
    LET _final_path == posixpath_normpath(posixpath_join(final_path, path))
    IN  IF EndsWith(path, Slash) \/ _final_path \o Slash = final_path
        THEN _final_path \o Slash
        ELSE _final_path

\* utils.py:100-106  final_path after the loop over paths
RECURSIVE JoinAll(_, _)
JoinAll(final_path, paths) ==
    IF Len(paths) = 0 THEN final_path
    ELSE JoinAll(JoinStep(final_path, Head(paths)), Tail(paths))

\* utils.py:112-116  the joined path is under base_path
UnderBase(final_path, base_path) ==
    /\ StartsWith(final_path, base_path)
    /\ Len(final_path) > Len(base_path)
    /\ final_path[Len(base_path) + 1] = "/"

\* safe_join(base, *paths): the path returned, or raised for ValueError
safe_join(base, paths) ==
    LET base_path == RStrip(base, {"/"})
        looped == JoinAll(base_path \o Slash, paths)
        final_path == IF looped = base_path THEN looped \o Slash ELSE looped
    IN  IF ~UnderBase(final_path, base_path)
        THEN [raised |-> TRUE, path |-> <<>>]
        ELSE [raised |-> FALSE, path |-> LStrip(final_path, {"/"})]

\* one call of safe_join on arguments drawn from Bases and PathLists
InitJoin ==
    /\ dirs = {}
    /\ store = [f \in Filenames |-> {}]
    /\ clock = 0
    /\ up = [p \in Procs |-> Idle]
    /\ file_storage_bytes = 0
    /\ project_filename = None
    /\ auditlog = {}
    /\ last = NoOp
    /\ maxEver = [f \in Filenames |-> 0]
    /\ bucket = NoBucket
    /\ rd = NoRead
    /\ stream = NoStream
    /\ tree = NoTree
    /\ cmd = NoCmd
    /\ pkg = NoPkg
    /\ \E b \in Bases, ps \in PathLists :
          joined = [base |-> b, paths |-> ps, done |-> FALSE, raised |-> FALSE,
                    path |-> <<>>]

SafeJoin ==
    /\ ~joined.done
    /\ LET r == safe_join(joined.base, joined.paths)
       IN  joined' = [joined EXCEPT !.done = TRUE, !.raised = r.raised,
                                    !.path = r.path]
    /\ UNCHANGED <<dirs, store, clock, up, file_storage_bytes, project_filename,
                   auditlog, last, maxEver, bucket, rd, stream, tree, cmd, pkg>>

NextJoin == SafeJoin

SpecJoin == InitJoin /\ [][NextJoin]_vars

(***************************************************************************)
(* Deletion by prefix and by key in the bucket (storage.py:24-150,         *)
(* 433-441, 463-468, 568-577).  The bucket holds object versions [key, id]; *)
(* a soft ("versioned") deletion leaves every version and puts a delete    *)
(* marker on the object, a permanent one removes the versions.             *)
(***************************************************************************)
VersionsPerKey == 2

OtherProjectId == [i \in 1..36 |-> IF i \in {9, 14, 19, 24} THEN "-" ELSE "b"]
PackagesSlash == <<"/", "p", "a", "c", "k", "a", "g", "e", "s", "/">>

\* f"projects/{project_id}/"
ProjectPrefix(project_id) == ProjectsSlash \o project_id \o Slash
\* f"projects/{project_id}/packages/{package_id}/"
PackagePrefix(project_id, package_id) ==
    ProjectsSlash \o project_id \o PackagesSlash \o package_id \o Slash

\* the keys objects are stored under: a file and two packages of the project,
\* a file of another project, a file whose key starts with the key of the
\* first one, and an object outside projects/
BucketKeys ==
    {StorageKey(ReportQgs),
     PackagePrefix(ProjectId, <<"1">>) \o <<"d">>,
     PackagePrefix(ProjectId, <<"2">>) \o <<"d">>,
     ProjectsSlash \o OtherProjectId \o FilesSlash \o ReportQgs,
     StorageKey(ReportQgs) \o <<".", "x">>,
     <<"x">>}

\* the project ids and package ids the deletions are called with
ProjectIds == {ProjectId, OtherProjectId, <<>>, <<"a">>,
               ProjectId \o <<"/", "f", "i", "l", "e", "s">>}
PackageIds == {<<"1">>, <<"2">>, <<>>, <<"1", "/", "d">>, <<".">>}
\* an argument that is not a string: the value None (strings are sequences of
\* single characters)
NoneArg == <<"None">>
IsStr(arg) == \A i \in 1..Len(arg) : arg[i] # "None"
\* the arguments the helpers are called with
HelperArgs ==
    {NoneArg, <<>>, Slash, ProjectsSlash, ProjectPrefix(ProjectId),
     PackagePrefix(ProjectId, <<"1">>)} \cup BucketKeys

\* [\w]{8}(-[\w]{4}){3}-[\w]{12} at s[from .. from + 35]
UuidShapeAt(s, from) ==
    /\ Len(s) >= from + 35
    /\ \A i \in 1..36 :
          LET c == s[from + i - 1]
          IN  IF i \in {9, 14, 19, 24} THEN c = "-" ELSE c \in WordChars

\* the check of the prefix without the anchor at its end
ProjectPrefixShapeOpenEnd(prefix) ==
    /\ Len(prefix) >= Len(ProjectsSlash) + 37
    /\ StartsWith(prefix, ProjectsSlash)
    /\ UuidShapeAt(prefix, Len(ProjectsSlash) + 1)
    /\ prefix[Len(ProjectsSlash) + 37] = "/"

\* re.match(r"^projects/[\w]{8}(-[\w]{4}){3}-[\w]{12}/$", prefix)
ProjectPrefixShapeOK(prefix) ==
    /\ Len(prefix) = Len(ProjectsSlash) + 37
    /\ StartsWith(prefix, ProjectsSlash)
    /\ UuidShapeAt(prefix, Len(ProjectsSlash) + 1)
    /\ prefix[Len(prefix)] = "/"

\* re.match(r"^projects/[\w]{8}(-[\w]{4}){3}-[\w]{12}/packages/\w+/$", prefix)
PackagePrefixShapeOK(prefix) ==
    LET n == Len(ProjectsSlash) + 36 + Len(PackagesSlash)
    IN  /\ Len(prefix) >= n + 2
        /\ StartsWith(prefix, ProjectsSlash)
        /\ UuidShapeAt(prefix, Len(ProjectsSlash) + 1)
        /\ SubSeq(prefix, Len(ProjectsSlash) + 37, n) = PackagesSlash
        /\ \A i \in (n + 1)..(Len(prefix) - 1) : prefix[i] \in WordChars
        /\ prefix[Len(prefix)] = "/"

\* not isinstance(arg, str) or arg == "" or arg == "/"
IllegalArg(arg) == ~IsStr(arg) \/ arg = <<>> \/ arg = Slash

\* bucket.objects.filter(Prefix=prefix).delete(): every object under the
\* prefix that is not deleted yet gets a delete marker; its versions stay
objects_filter_delete(b, prefix) ==
    [b EXCEPT !.markers =
        @ \cup {v.key : v \in {w \in b.versions : StartsWith(w.key, prefix)}}]

\* bucket.object_versions.filter(Prefix=prefix).delete(): every version and
\* every delete marker under the prefix is removed
object_versions_filter_delete(b, prefix) ==
    [b EXCEPT !.versions = {v \in @ : ~StartsWith(v.key, prefix)},
              !.markers = {k \in @ : ~StartsWith(k, prefix)}]

\* storage.py:24-46
delete_by_prefix_versioned(b, prefix) ==
    IF IllegalArg(prefix) THEN [b EXCEPT !.raised = "RuntimeError"]
    ELSE objects_filter_delete(b, prefix)

\* storage.py:49-71
delete_by_prefix_permanently(b, prefix) ==
    IF IllegalArg(prefix) THEN [b EXCEPT !.raised = "RuntimeError"]
    ELSE object_versions_filter_delete(b, prefix)

\* storage.py:74-103  delete_objects with a key and no version id: the object
\* gets a delete marker
delete_by_key_versioned(b, key) ==
    IF IllegalArg(key) THEN [b EXCEPT !.raised = "RuntimeError"]
    ELSE [b EXCEPT !.markers = @ \cup {key}]

\* storage.py:106-150  the versions listed under the prefix `key` whose key
\* is `key` itself are deleted; there must be one
delete_by_key_permanently_in_bucket(b, key) ==
    IF IllegalArg(key) THEN [b EXCEPT !.raised = "RuntimeError"]
    ELSE LET temp_objects ==
                 {v \in b.versions : StartsWith(v.key, key)}
                     \cup {[key |-> k, id |-> 0] :
                              k \in {m \in b.markers : StartsWith(m, key)}}
             object_to_delete == {v \in temp_objects : v.key = key}
         IN  IF object_to_delete = {} THEN [b EXCEPT !.raised = "AssertionError"]
             ELSE [b EXCEPT !.versions = @ \ object_to_delete,
                            !.markers = @ \ {key}]

\* the bucket before a call: a set of stored objects with VersionsPerKey
\* versions each, some of them deleted softly before
InitBucket ==
    /\ dirs = {}
    /\ store = [f \in Filenames |-> {}]
    /\ clock = 0
    /\ up = [p \in Procs |-> Idle]
    /\ file_storage_bytes = 0
    /\ project_filename = None
    /\ auditlog = {}
    /\ last = NoOp
    /\ maxEver = [f \in Filenames |-> 0]
    /\ joined = NoJoin
    /\ rd = NoRead
    /\ stream = NoStream
    /\ tree = NoTree
    /\ cmd = NoCmd
    /\ pkg = NoPkg
    /\ \E keys \in SUBSET BucketKeys : \E marked \in SUBSET keys :
          bucket = [NoBucket EXCEPT
                       !.versions = {[key |-> k, id |-> i] :
                                        k \in keys, i \in 1..VersionsPerKey},
                       !.markers = marked]

\* one call on the bucket
BucketCall(op, b) ==
    /\ bucket.op = "init"
    /\ bucket' = [b EXCEPT !.op = op]
    /\ UNCHANGED <<dirs, store, clock, up, file_storage_bytes, project_filename,
                   auditlog, last, maxEver, joined, rd, stream, tree, cmd, pkg>>

\* storage.py:433-441
delete_all_project_files_permanently(project_id) ==
    LET prefix == ProjectPrefix(project_id)
        b == [bucket EXCEPT !.raised = "no"]
    IN  BucketCall("delete_all",
                   IF ~ProjectPrefixShapeOK(prefix)
                   THEN [b EXCEPT !.raised = "RuntimeError"]
                   ELSE delete_by_prefix_versioned(b, prefix))

\* storage.py:568-577
delete_stored_package(project_id, package_id) ==
    LET prefix == PackagePrefix(project_id, package_id)
        b == [bucket EXCEPT !.raised = "no"]
    IN  BucketCall("delete_package",
                   IF ~PackagePrefixShapeOK(prefix)
                   THEN [b EXCEPT !.raised = "RuntimeError"]
                   ELSE delete_by_prefix_permanently(b, prefix))

\* storage.py:463-468  the end of delete_project_file_permanently: the check
\* of the key of the latest version, then the deletion by key
delete_file_key_permanently(key) ==
    LET b == [bucket EXCEPT !.raised = "no"]
    IN  BucketCall("delete_file_key",
                   IF ~ProjectKeyShapeOK(key)
                   THEN [b EXCEPT !.raised = "RuntimeError"]
                   ELSE delete_by_key_permanently_in_bucket(b, key))

DeleteByPrefixVersioned(arg) ==
    BucketCall("prefix_versioned",
               delete_by_prefix_versioned([bucket EXCEPT !.raised = "no"], arg))
DeleteByPrefixPermanently(arg) ==
    BucketCall("prefix_permanently",
               delete_by_prefix_permanently([bucket EXCEPT !.raised = "no"], arg))
DeleteByKeyVersioned(arg) ==
    BucketCall("key_versioned",
               delete_by_key_versioned([bucket EXCEPT !.raised = "no"], arg))
DeleteByKeyPermanently(arg) ==
    BucketCall("key_permanently",
               delete_by_key_permanently_in_bucket([bucket EXCEPT !.raised = "no"],
                                                   arg))

NextBucket ==
    \/ \E project_id \in ProjectIds : delete_all_project_files_permanently(project_id)
    \/ \E project_id \in ProjectIds, package_id \in PackageIds :
          delete_stored_package(project_id, package_id)
    \/ \E key \in BucketKeys : delete_file_key_permanently(key)
    \/ \E arg \in HelperArgs : DeleteByPrefixVersioned(arg)
    \/ \E arg \in HelperArgs : DeleteByPrefixPermanently(arg)
    \/ \E arg \in HelperArgs : DeleteByKeyVersioned(arg)
    \/ \E arg \in HelperArgs : DeleteByKeyPermanently(arg)

SpecBucket == InitBucket /\ [][NextBucket]_vars

(***************************************************************************)
(* get_sha256 and get_md5sum (core/utils.py:15-73) on a stream.  The bytes *)
(* of a stream are named by their offsets: a buffer read is the range      *)
(* [from, to) of the stream, and a digest is taken of the range of bytes   *)
(* the hasher was updated with.                                            *)
(***************************************************************************)
BLOCKSIZE == 65536
MaxHashCalls == 2

StreamKinds == {"InMemoryUploadedFile", "TemporaryUploadedFile", "file"}
StreamLengths ==
    {0, 1, BLOCKSIZE - 1, BLOCKSIZE, BLOCKSIZE + 1, 2 * BLOCKSIZE, 2 * BLOCKSIZE + 1}

\* file.read(size): the bytes from the position on, at most size of them
StreamRead(s, size) ==
    LET to == IF s.pos + size < s.len THEN s.pos + size ELSE s.len
    IN  [buf |-> [from |-> s.pos, to |-> to], stream |-> [s EXCEPT !.pos = to]]
\* file.seek(0)
StreamSeekStart(s) == [s EXCEPT !.pos = 0]

\* hasher.update(buf) on every buffer read until one is empty; `hashed` is the
\* range of bytes the hasher holds
RECURSIVE ReadBlocks(_, _)
ReadBlocks(s, hashed) ==
    LET r == StreamRead(s, BLOCKSIZE)
    IN  IF r.buf.to = r.buf.from THEN [stream |-> s, hashed |-> hashed]
        ELSE ReadBlocks(r.stream, [hashed EXCEPT !.to = r.buf.to])

\* utils.py:37-41 and 68-72  the read loop from the position the stream has
HashFile(s) == ReadBlocks(s, [from |-> s.pos, to |-> s.pos])

\* utils.py:27-28 and 57-58  file.chunks(BLOCKSIZE): the uploaded file is
\* rewound, then an InMemoryUploadedFile yields its whole content at once and
\* a TemporaryUploadedFile block after block
HashChunks(s) ==
    LET start == StreamSeekStart(s)
    IN  IF s.kind = "InMemoryUploadedFile"
        THEN LET r == StreamRead(start, start.len)
             IN  [stream |-> r.stream, hashed |-> r.buf]
        ELSE ReadBlocks(start, [from |-> 0, to |-> 0])

IsUploadedFile(s) == s.kind \in {"InMemoryUploadedFile", "TemporaryUploadedFile"}

\* _get_sha256_memory_file
get_sha256_memory_file(s) ==
    LET h == HashChunks(s)
    IN  [stream |-> StreamSeekStart(h.stream), digest |-> Sha256(h.hashed)]

\* the read loop without the seek after it
get_sha256_file_no_seek(s) ==
    LET h == HashFile(s)
    IN  [stream |-> h.stream, digest |-> Sha256(h.hashed)]

\* _get_sha256_file
get_sha256_file(s) ==
    LET h == HashFile(s)
    IN  [stream |-> StreamSeekStart(h.stream), digest |-> Sha256(h.hashed)]

\* _get_md5sum_memory_file
get_md5sum_memory_file(s) ==
    LET h == HashChunks(s)
    IN  [stream |-> StreamSeekStart(h.stream), digest |-> Md5(h.hashed)]

\* _get_md5sum_file
get_md5sum_file(s) ==
    LET h == HashFile(s)
    IN  [stream |-> StreamSeekStart(h.stream), digest |-> Md5(h.hashed)]

get_sha256(s) ==
    IF IsUploadedFile(s) THEN get_sha256_memory_file(s) ELSE get_sha256_file(s)
get_md5sum(s) ==
    IF IsUploadedFile(s) THEN get_md5sum_memory_file(s) ELSE get_md5sum_file(s)

\* a stream as a caller opens it, before its first read
InitHash ==
    /\ dirs = {}
    /\ store = [f \in Filenames |-> {}]
    /\ clock = 0
    /\ up = [p \in Procs |-> Idle]
    /\ file_storage_bytes = 0
    /\ project_filename = None
    /\ auditlog = {}
    /\ last = NoOp
    /\ maxEver = [f \in Filenames |-> 0]
    /\ joined = NoJoin
    /\ bucket = NoBucket
    /\ rd = NoRead
    /\ tree = NoTree
    /\ cmd = NoCmd
    /\ pkg = NoPkg
    /\ \E kind \in StreamKinds, len \in StreamLengths :
          stream = [NoStream EXCEPT !.kind = kind, !.len = len]

HashCall(r) ==
    /\ Len(stream.digests) < MaxHashCalls
    /\ stream' = [r.stream EXCEPT !.digests = Append(@, r.digest)]
    /\ UNCHANGED <<dirs, store, clock, up, file_storage_bytes, project_filename,
                   auditlog, last, maxEver, joined, bucket, rd, tree, cmd, pkg>>

GetSha256 == HashCall(get_sha256(stream))
GetMd5sum == HashCall(get_md5sum(stream))

NextHash == GetSha256 \/ GetMd5sum

SpecHash == InitHash /\ [][NextHash]_vars

(***************************************************************************)
(* list_project_files (utils_local.py:75-87) on a directory tree.  A path  *)
(* is the sequence of the names leading to an entry from the directory the *)
(* function is called on.                                                  *)
(***************************************************************************)
MaxDepth == 3

\* the names directories are made with, and the regular file of the tree
DirNames == {<<"a">>, <<"b", ".", "d">>}
RegularFile == <<<<"f", ".", "d">>>>

\* entry.suffix.lower() == ".d"
HasMarkerSuffix(path) == Lower(Suffix(path[Len(path)])) = DotD

\* project_dir.glob("*"): the entries of the directory
GlobStar(t, project_dir) ==
    {e \in t.dirs \cup t.files :
        Len(e) = Len(project_dir) + 1 /\ SubSeq(e, 1, Len(project_dir)) = project_dir}

\* the function descending into the directories that carry the suffix as well
RECURSIVE list_project_files_descending(_, _)
list_project_files_descending(t, project_dir) ==
    LET entries == {entry \in GlobStar(t, project_dir) : entry \in t.dirs}
    IN  UNION {(IF HasMarkerSuffix(entry) THEN {entry} ELSE {})
                   \cup list_project_files_descending(t, entry) : entry \in entries}

\* list_project_files, recursive as in the source
RECURSIVE list_project_files_in(_, _)
list_project_files_in(t, project_dir) ==
    LET entries == {entry \in GlobStar(t, project_dir) : entry \in t.dirs}
    IN  UNION {IF HasMarkerSuffix(entry) THEN {entry}
               ELSE list_project_files_in(t, entry) : entry \in entries}

\* os.makedirs of one more directory, anywhere in the tree
Mkdir(parent, name) ==
    /\ parent \in tree.dirs \cup {<<>>}
    /\ Len(parent) < MaxDepth
    /\ Append(parent, name) \notin tree.dirs
    /\ tree' = [tree EXCEPT !.dirs = @ \cup {Append(parent, name)},
                            !.done = FALSE, !.all_files = {}]
    /\ UNCHANGED <<dirs, store, clock, up, file_storage_bytes, project_filename,
                   auditlog, last, maxEver, joined, bucket, rd, stream,
                   cmd, pkg>>

\* a regular file whose name ends in .d is written in the directory
WriteRegularFile ==
    /\ tree.files = {}
    /\ tree' = [tree EXCEPT !.files = {RegularFile}, !.done = FALSE, !.all_files = {}]
    /\ UNCHANGED <<dirs, store, clock, up, file_storage_bytes, project_filename,
                   auditlog, last, maxEver, joined, bucket, rd, stream,
                   cmd, pkg>>

ListProjectFiles ==
    /\ ~tree.done
    /\ tree' = [tree EXCEPT !.done = TRUE,
                            !.all_files = list_project_files_in(tree, <<>>)]
    /\ UNCHANGED <<dirs, store, clock, up, file_storage_bytes, project_filename,
                   auditlog, last, maxEver, joined, bucket, rd, stream,
                   cmd, pkg>>

NextTree ==
    \/ \E parent \in tree.dirs \cup {<<>>}, name \in DirNames : Mkdir(parent, name)
    \/ WriteRegularFile
    \/ ListProjectFiles

SpecTree == Init /\ [][NextTree]_vars

(***************************************************************************)
(* The deleteorphanedfiles command (management/commands/                   *)
(* deleteorphanedfiles.py).  The store holds files of several project      *)
(* directories; cmd.db holds the ids of the Project rows.                  *)
(***************************************************************************)
MaxLimit == 3
Limits == 1..MaxLimit

ThirdProjectId == [i \in 1..36 |-> IF i \in {9, 14, 19, 24} THEN "-" ELSE "c"]
\* a directory name of 36 characters that is no UUID
NotUuidDir == [i \in 1..36 |-> "z"]
\* the directories found under the projects directory, and the rows
StorageDirs == {ProjectId, OtherProjectId, ThirdProjectId, NotUuidDir}
RowIds == {ProjectId, OtherProjectId, ThirdProjectId}
OrphanKeys ==
    {ProjectsSlash \o d \o FilesSlash \o n :
        d \in StorageDirs, n \in {ReportQgs, MakeFile}}

HexChars == {DigitChars[i] : i \in 1..10} \cup {"a", "b", "c", "d", "e", "f"}
RECURSIVE RemoveHyphens(_)
RemoveHyphens(s) ==
    IF Len(s) = 0 THEN <<>>
    ELSE IF Head(s) = "-" THEN RemoveHyphens(Tail(s))
    ELSE <<Head(s)>> \o RemoveHyphens(Tail(s))
\* deleteorphanedfiles.py:46-50  UUID(project_id) does not raise: without its
\* hyphens the string is 32 hexadecimal digits
IsUuid(project_id) ==
    LET hex == RemoveHyphens(project_id)
    IN  Len(hex) = 32 /\ \A i \in 1..32 : Lower(hex)[i] \in HexChars
\* str(UUID(project_id)): the digits in lower case, hyphenated 8-4-4-4-12
UuidStr(project_id) ==
    LET hex == Lower(RemoveHyphens(project_id))
    IN  SubSeq(hex, 1, 8) \o <<"-">> \o SubSeq(hex, 9, 12) \o <<"-">>
            \o SubSeq(hex, 13, 16) \o <<"-">> \o SubSeq(hex, 17, 20) \o <<"-">>
            \o SubSeq(hex, 21, 32)

\* list_files(get_projects_dir(), ""): the names, relative to the projects
\* directory, of the containers that have a listed version, sorted; the
\* versions of a file are listed when its basename holds a dot
ListedNames(b) ==
    {SubSeq(v.key, Len(ProjectsSlash) + 1, Len(v.key)) \o DotD :
        v \in {w \in b.versions :
                  /\ StartsWith(w.key, ProjectsSlash)
                  /\ MatchesStarDotStar(SubSeq(w.key, Len(ProjectsSlash) + 37
                                                          + Len(FilesSlash),
                                               Len(w.key)))}}
RECURSIVE SortStrings(_)
SortStrings(S) ==
    IF S = {} THEN <<>>
    ELSE LET m == CHOOSE x \in S : \A y \in S : y = x \/ ~StrLess(y, x)
         IN  <<m>> \o SortStrings(S \ {m})
list_files_names(b) == SortStrings(ListedNames(b))

\* deleteorphanedfiles.py:16-30
get_orphaned_project_ids(project_ids, db) ==
    LET existing_project_ids ==
            {row \in db : \E p \in project_ids : UuidStr(p) = row}
    IN  IF Cardinality(existing_project_ids) < Cardinality(project_ids)
        THEN {project_id \in project_ids : project_id \notin existing_project_ids}
        ELSE {}

\* deleteorphanedfiles.py:43-60  the loop over the listed files
RECURSIVE CollectOrphaned(_, _, _, _, _)
CollectOrphaned(names, db, limit, project_ids, orphaned_project_ids) ==
    IF Len(names) = 0
    THEN [project_ids |-> project_ids, orphaned |-> orphaned_project_ids]
    ELSE LET project_id == SubSeq(Head(names), 1, 36)
             ids == project_ids \cup {project_id}
         IN  IF ~IsUuid(project_id)
             THEN CollectOrphaned(Tail(names), db, limit, project_ids,
                                  orphaned_project_ids)
             ELSE IF Cardinality(ids) = limit
             THEN CollectOrphaned(Tail(names), db, limit, {},
                                  orphaned_project_ids
                                      \cup get_orphaned_project_ids(ids, db))
             ELSE CollectOrphaned(Tail(names), db, limit, ids,
                                  orphaned_project_ids)

\* deleteorphanedfiles.py:37-66  the orphaned project ids of a run
orphaned_ids(b, db, limit) ==
    LET r == CollectOrphaned(list_files_names(b), db, limit, {}, {})
    IN  IF r.project_ids # {}
        THEN r.orphaned \cup get_orphaned_project_ids(r.project_ids, db)
        ELSE r.orphaned

\* storage.py:433-441 on a bucket
delete_all_project_files(b, project_id) ==
    LET prefix == ProjectPrefix(project_id)
    IN  IF ~ProjectPrefixShapeOK(prefix) THEN [b EXCEPT !.raised = "RuntimeError"]
        ELSE delete_by_prefix_versioned(b, prefix)

\* the loop of deleteorphanedfiles.py:73-77 of a real run; it ends with the
\* first call that raises
RECURSIVE DeleteEach(_, _, _)
DeleteEach(b, project_ids, called) ==
    IF Len(project_ids) = 0 \/ b.raised # "no" THEN [b |-> b, calls |-> called]
    ELSE DeleteEach(delete_all_project_files(b, Head(project_ids)),
                    Tail(project_ids), Append(called, Head(project_ids)))

\* the loop that deletes in a dry run too
delete_orphaned_always(b, project_ids, dry_run) ==
    DeleteEach(b, project_ids, <<>>)

\* deleteorphanedfiles.py:73-77
delete_orphaned(b, project_ids, dry_run) ==
    IF dry_run THEN [b |-> b, calls |-> <<>>]
    ELSE DeleteEach(b, project_ids, <<>>)

\* deleteorphanedfiles.py:32-77  what a run reports, calls and leaves
handle(b, db, dry_run, limit) ==
    LET report == SortStrings(orphaned_ids(b, db, limit))
        d == delete_orphaned([b EXCEPT !.raised = "no"], report, dry_run)
    IN  [report |-> report, calls |-> d.calls, b |-> d.b]

\* the store and the rows before the command runs
InitOrphans ==
    /\ dirs = {}
    /\ store = [f \in Filenames |-> {}]
    /\ clock = 0
    /\ up = [p \in Procs |-> Idle]
    /\ file_storage_bytes = 0
    /\ project_filename = None
    /\ auditlog = {}
    /\ last = NoOp
    /\ maxEver = [f \in Filenames |-> 0]
    /\ joined = NoJoin
    /\ rd = NoRead
    /\ stream = NoStream
    /\ tree = NoTree
    /\ \E keys \in SUBSET OrphanKeys :
          bucket = [NoBucket EXCEPT
                       !.versions = {[key |-> k, id |-> i] :
                                        k \in keys, i \in 1..VersionsPerKey}]
    /\ \E db \in SUBSET RowIds : cmd = [NoCmd EXCEPT !.db = db]
    /\ pkg = NoPkg

\* one run of the command
Handle(dry_run, limit) ==
    LET r == handle(bucket, cmd.db, dry_run, limit)
    IN  /\ cmd.op = "init"
        /\ cmd' = [cmd EXCEPT !.op = IF dry_run THEN "dry_run" ELSE "run",
                              !.limit = limit,
                              !.report = r.report,
                              !.calls = r.calls,
                              !.raised = r.b.raised]
        /\ bucket' = [r.b EXCEPT !.op = "deleteorphanedfiles"]
        /\ UNCHANGED <<dirs, store, clock, up, file_storage_bytes,
                       project_filename, auditlog, last, maxEver, joined, rd,
                       stream, tree, pkg>>

NextOrphans ==
    \/ \E limit \in Limits : Handle(FALSE, limit)
    \/ \E limit \in Limits : Handle(TRUE, limit)

SpecOrphans == InitOrphans /\ [][NextOrphans]_vars

(***************************************************************************)
(* PackageView.post (views/qfield_files_views.py:37-76) for one project,   *)
(* called by NumProcs concurrent requests.  Its queries are separate       *)
(* statements: the check for an active job and the creation of the job are *)
(* two steps, and other requests and the worker act between them.          *)
(***************************************************************************)
MaxJobs == 3

\* qfield_files_views.py:46-50  the statuses of the query
ActiveStatuses == {"PENDING", "QUEUED", "STARTED"}
ActiveJobs(jobs) == {j \in jobs : j.status \in ActiveStatuses}
\* qfield_files_views.py:56-60
FinishedJobs(jobs) == {j \in jobs : j.status = "FINISHED"}

\* PackageJob.objects.create(project=..., created_by=...): a new row, PENDING
PackageJob_create(jobs) ==
    jobs \cup {[id |-> Cardinality(jobs) + 1, status |-> "PENDING"]}

\* qfield_files_views.py:38-65  from the start of post to the check for an
\* active job: the request responds, raises, or goes on to create a job
PostCheck(p, has_project_filename, needs_repackaging) ==
    LET Respond(r) ==
            pkg' = [pkg EXCEPT !.response[p] = r]
    IN  /\ pkg.pc[p] = "idle"
        /\ IF ~has_project_filename THEN Respond("NoQGISProjectError")
           ELSE IF ~needs_repackaging /\ FinishedJobs(pkg.jobs) = {}
           THEN Respond("DoesNotExist")
           ELSE IF ~needs_repackaging THEN Respond("finished job")
           ELSE IF Cardinality(ActiveJobs(pkg.jobs)) > 1
           THEN Respond("MultipleObjectsReturned")
           ELSE IF ActiveJobs(pkg.jobs) # {} THEN Respond("active job")
           ELSE pkg' = [pkg EXCEPT !.pc[p] = "create", !.response[p] = "none"]
        /\ UNCHANGED <<dirs, store, clock, up, file_storage_bytes,
                       project_filename, auditlog, last, maxEver, joined, bucket,
                       rd, stream, tree, cmd>>

\* qfield_files_views.py:67-76  the job is created and returned
PostCreate(p) ==
    /\ pkg.pc[p] = "create"
    /\ Cardinality(pkg.jobs) < MaxJobs
    /\ pkg' = [pkg EXCEPT !.jobs = PackageJob_create(@),
                          !.pc[p] = "idle",
                          !.response[p] = "new job"]
    /\ UNCHANGED <<dirs, store, clock, up, file_storage_bytes,
                   project_filename, auditlog, last, maxEver, joined, bucket,
                   rd, stream, tree, cmd>>

\* the worker takes a job through its statuses
NextStatus(status) ==
    CASE status = "PENDING" -> {"QUEUED"}
      [] status = "QUEUED" -> {"STARTED"}
      [] status = "STARTED" -> {"FINISHED", "FAILED"}
      [] OTHER -> {}
WorkerStep ==
    /\ \E j \in pkg.jobs : \E status \in NextStatus(j.status) :
          pkg' = [pkg EXCEPT !.jobs = (@ \ {j}) \cup {[j EXCEPT !.status = status]}]
    /\ UNCHANGED <<dirs, store, clock, up, file_storage_bytes,
                   project_filename, auditlog, last, maxEver, joined, bucket,
                   rd, stream, tree, cmd>>

NextPackage ==
    \/ \E p \in Procs, has_project_filename \in BOOLEAN, needs_repackaging \in BOOLEAN :
          PostCheck(p, has_project_filename, needs_repackaging)
    \/ \E p \in Procs : PostCreate(p)
    \/ WorkerStep

SpecPackage == Init /\ [][NextPackage]_vars

\* the requests one after the other: a request starts when no other is between
\* its check and its creation
NextPackageSeq ==
    \/ /\ \A q \in Procs : pkg.pc[q] = "idle"
       /\ \E p \in Procs, has_project_filename \in BOOLEAN,
             needs_repackaging \in BOOLEAN :
             PostCheck(p, has_project_filename, needs_repackaging)
    \/ \E p \in Procs : PostCreate(p)
    \/ WorkerStep

SpecPackageSeq == Init /\ [][NextPackageSeq]_vars

(***************************************************************************)
(* Properties.                                                             *)
(***************************************************************************)
\* the version ids of the physical files of a container, and of those that
\* get_all_versions lists
Ids(content) == {get_version_id(f.fname) : f \in content}
ListedIds(content) == {get_version_id(f.fname) : f \in {g \in content : GlobTable[g.fname]}}
MaxOf(S) == CHOOSE m \in S : \A i \in S : i <= m
AllIdle == \A p \in Procs : up[p].pc = "idle"
\* the step completes an upload of process p: its write succeeded
Uploaded(p) == up[p].pc = "counted" /\ up'[p].pc = "idle" /\ clock' = clock + 1

RECURSIVE CountVersions(_, _)
CountVersions(st, files) ==
    IF files = {} THEN 0
    ELSE LET f == CHOOSE g \in files : TRUE
         IN  Cardinality(st[f]) + CountVersions(st, files \ {f})

\* C1: N uploads to one key, in any interleaving, leave exactly N versions with
\* ids {1, ..., N}.  The clock counts the completed uploads and an upload adds
\* at most one version to its key, so with no upload in flight the claim for all
\* keys is: as many versions as completed uploads, and per key ids 1..count.
C1_UploadIdsContiguous ==
    AllIdle =>
        /\ CountVersions(store, Filenames) = clock
        /\ \A f \in Filenames : Ids(store[f]) = 1..Cardinality(store[f])

\* C2: version ids are never reused: the id a completed upload assigns is
\* greater than every id an earlier version of the key ever carried, deleted
\* versions included.
C2_IdsNeverReused ==
    [][\A p \in Procs : Uploaded(p) => up[p].count > maxEver[up[p].file]]_vars

\* C3: one upload to a key whose version ids are S creates the container and
\* writes exactly one new version, named {id}_{basename} with id = max(S) + 1
\* (1 for empty S), and leaves the versions in S as they were.
C3_SingleUpload ==
    [][\A p \in Procs :
          /\ up'[p].pc = "listed" => up'[p].file \in dirs'
          /\ Uploaded(p) =>
                LET f == up[p].file
                    S == Ids(store[f])
                    id == IF S = {} THEN 1 ELSE MaxOf(S) + 1
                IN  /\ \A g \in store[f] : g \in store'[f]
                    /\ \E d \in Contents :
                          store'[f] \ store[f] =
                              {[fname |-> VersionFileName(id, f), data |-> d,
                                mtime |-> clock']}]_vars

\* C2 for a key that still holds versions, all of them listed by
\* get_all_versions (report.qgs): the reuse of the id of a deleted latest
\* version.
C2_ReusedAfterDelete ==
    [][\A p \in Procs :
          (/\ Uploaded(p)
           /\ store[up[p].file] # {}
           /\ \A g \in store[up[p].file] : GlobTable[g.fname])
              => up[p].count > maxEver[up[p].file]]_vars

\* the listed physical files of a container
Listed(content) == {g \in content : GlobTable[g.fname]}

\* one result (latest, versions): exactly one version is flagged is_latest, it
\* carries the highest id the container holds, and it is the latest entry
LatestFlagOK(e, content) ==
    LET flagged == {j \in 1..Len(e.versions) : e.versions[j].is_latest}
    IN  /\ Cardinality(flagged) = 1
        /\ \A j \in flagged :
              /\ e.versions[j].version_id = MaxOf(ListedIds(content))
              /\ e.versions[j] = e.latest

\* C4: in every result of list_files_with_versions and of
\* get_project_file_with_versions exactly one version of each file is flagged
\* is_latest, it is the version with the highest remaining id, and it equals
\* the result's latest entry.
C4_IsLatestIsMax ==
    /\ LET files == list_files_with_versions(dirs, store)
       IN  \A i \in 1..Len(files) :
              LatestFlagOK(files[i], store[files[i].latest.file])
    /\ \A f \in Filenames :
          LET r == get_project_file_with_versions(dirs, store, f)
          IN  (r # None /\ r # IndexError) => LatestFlagOK(r, store[r.latest.file])

\* a listing of a file with several versions, right after a deletion
C4_Witness ==
    /\ last.op \in {"delete_version", "purge"}
    /\ last.result = "ok"
    /\ last.deleted # {}
    /\ \E f \in Filenames :
          /\ Cardinality(ListedIds(store[f])) >= 2
          /\ get_project_file_with_versions(dirs, store, f) \notin {None, IndexError}
          /\ Len(list_files_with_versions(dirs, store)) >= 1

\* C5: delete_project_file_version_permanently on a file with exactly one
\* version, given that version's id and either include_older, fails with an
\* error and the version is still there.
C5_OnlyVersionKept ==
    [][\A f \in Filenames, v \in VersionIds, o \in BOOLEAN :
          (/\ delete_project_file_version_permanently(f, v, o)
           /\ Cardinality(store[f]) = 1
           /\ Ids(store[f]) = {v})
              => (last'.op = "delete_version" /\ last'.result # "ok"
                  /\ store' = store)]_vars

\* the call was refused because the version is the only one
C5_Witness ==
    /\ last.op = "delete_version"
    /\ last.result = "OnlyVersion"
    /\ \E f \in Filenames : Cardinality(ListedIds(store[f])) = 1

\* C6: no call of delete_project_file_version_permanently leaves a file that
\* had a version without any version.
C6_NeverZeroVersions ==
    [][last'.op = "delete_version" =>
          \A f \in Filenames :
              ListedIds(store[f]) # {} => ListedIds(store'[f]) # {}]_vars

\* the K listed files of a container with the most recent modification time
Newest(content, k) ==
    {g \in Listed(content) :
        Cardinality({h \in Listed(content) : h.mtime > g.mtime}) < k}

\* C7: purge with keep_count = K leaves a file with V > K versions exactly its
\* K most recently modified versions and deletes exactly the other V - K.
C7_PurgeKeepsNewest ==
    [][\A k \in KeepCounts :
          purge_old_file_versions(k) =>
              \A f \in Filenames :
                  Cardinality(Listed(store[f])) > k =>
                      /\ Listed(store'[f]) = Newest(store[f], k)
                      /\ {d \in last'.deleted : d[1] = f} =
                            {<<f, get_version_id(g.fname)>> :
                                g \in Listed(store[f]) \ Newest(store[f], k)}]_vars

\* C7 for keep_count >= 1 only: the purge that keeps at least one version
C7_PurgeKeepsNewestPositive ==
    [][\A k \in KeepCounts \ {0} :
          purge_old_file_versions(k) =>
              \A f \in Filenames :
                  Cardinality(Listed(store[f])) > k =>
                      Listed(store'[f]) = Newest(store[f], k)]_vars

\* the size of version id of a file
SizeOf(content, id) ==
    Len((CHOOSE g \in content : get_version_id(g.fname) = id).data)

RECURSIVE SumLatestSizes(_)
SumLatestSizes(files) ==
    IF Len(files) = 0 THEN 0 ELSE files[1].size + SumLatestSizes(Tail(files))

\* C9: after every completed upload, version deletion, file deletion and purge
\* file_storage_bytes equals the sum of the sizes of the latest version of each
\* file then stored.
C9_BytesRecomputed ==
    (last.op # "init" /\ last.result = "ok" /\ AllIdle)
        => file_storage_bytes = SumLatestSizes(list_files(dirs, store))

\* C10: include_older = True on a version v that is not the latest deletes v
\* and every older version, and keeps every newer one.
C10_IncludeOlder ==
    [][\A f \in Filenames, v \in VersionIds :
          (/\ delete_project_file_version_permanently(f, v, TRUE)
           /\ last'.result # "StorageError"
           /\ v \in ListedIds(store[f])
           /\ v # MaxOf(ListedIds(store[f])))
              => ListedIds(store'[f]) = {i \in ListedIds(store[f]) : i > v}]_vars

\* the store without version id of file f, everything else as it was
WithoutVersion(st, f, id) ==
    [st EXCEPT ![f] = {g \in @ : get_version_id(g.fname) # id}]

\* C11: delete_project_file_version_permanently with include_older = False on an
\* existing version of a file with at least two versions removes exactly that
\* version; the other versions of the file and all versions of the other files
\* stay as they were.
C11_DeletesExactlyOne ==
    [][\A f \in Filenames, v \in VersionIds :
          (/\ delete_project_file_version_permanently(f, v, FALSE)
           /\ last'.result # "StorageError"
           /\ v \in ListedIds(store[f])
           /\ Cardinality(ListedIds(store[f])) >= 2)
              => /\ store' = WithoutVersion(store, f, v)
                 /\ dirs' = dirs]_vars

\* C11 for the files that get_project_file_with_versions finds under their name
C11_DeletesExactlyOneFound ==
    [][\A f \in Filenames, v \in VersionIds :
          (/\ delete_project_file_version_permanently(f, v, FALSE)
           /\ last'.result # "StorageError"
           /\ StrippedNameTable[f] = f
           /\ v \in ListedIds(store[f])
           /\ Cardinality(ListedIds(store[f])) >= 2)
              => /\ store' = WithoutVersion(store, f, v)
                 /\ dirs' = dirs]_vars

\* the version ids list_files reports as latest for file f (one id, or none)
LatestListed(ds, st, f) ==
    LET files == list_files(ds, st)
    IN  {files[i].version_id : i \in {j \in 1..Len(files) : files[j].file = f}}

\* C12: when version_id is the latest version of a file with more than one
\* version, include_older counts as False: only the latest version is deleted
\* and the next-highest remaining version becomes the latest.
C12_LatestDeletedAlone ==
    [][\A f \in Filenames, v \in VersionIds, o \in BOOLEAN :
          (/\ delete_project_file_version_permanently(f, v, o)
           /\ last'.result # "StorageError"
           /\ Cardinality(ListedIds(store[f])) >= 2
           /\ v = MaxOf(ListedIds(store[f])))
              => /\ store' = WithoutVersion(store, f, v)
                 /\ LatestListed(dirs', store', f)
                        = {MaxOf(ListedIds(store[f]) \ {v})}]_vars

\* C12 for the files that get_project_file_with_versions finds under their name
C12_LatestDeletedAloneFound ==
    [][\A f \in Filenames, v \in VersionIds, o \in BOOLEAN :
          (/\ delete_project_file_version_permanently(f, v, o)
           /\ last'.result # "StorageError"
           /\ StrippedNameTable[f] = f
           /\ Cardinality(ListedIds(store[f])) >= 2
           /\ v = MaxOf(ListedIds(store[f])))
              => /\ store' = WithoutVersion(store, f, v)
                 /\ LatestListed(dirs', store', f)
                        = {MaxOf(ListedIds(store[f]) \ {v})}]_vars

\* path is base (without trailing separators) followed by a separator and a
\* remainder that has no "." or ".." component
InsideBase(path, base) ==
    LET base_path == RStrip(base, {"/"})
        prefix == base_path \o Slash
    IN  /\ StartsWith(path, prefix)
        /\ LET comps == SplitSlash(SubSeq(path, Len(prefix) + 1, Len(path)))
           IN  \A i \in 1..Len(comps) : comps[i] # DotDot /\ comps[i] # <<".">>

\* C13: safe_join never returns a path outside its base: it raises, or returns
\* a normalized path that is base followed by a separator; and
\* safe_join(base, "a", "../../etc/passwd") raises for every base.
C13_NeverOutsideBase ==
    joined.done =>
        /\ ~joined.raised => InsideBase(joined.path, joined.base)
        /\ joined.paths = <<<<"a">>, EtcPasswd>> => joined.raised

\* C13, the returned path only, for bases that are not empty and do not start
\* with a separator
C13_NeverOutsideRelativeBase ==
    (/\ joined.done
     /\ ~joined.raised
     /\ Len(RStrip(joined.base, {"/"})) > 0
     /\ ~StartsWith(joined.base, Slash)) => InsideBase(joined.path, joined.base)

\* C13, the returned path only, for those bases without a ".." component
C13_NeverOutsidePlainBase ==
    (/\ joined.done
     /\ ~joined.raised
     /\ Len(RStrip(joined.base, {"/"})) > 0
     /\ ~StartsWith(joined.base, Slash)
     /\ joined.base # DotDot) => InsideBase(joined.path, joined.base)

\* C13, the example only
C13_EtcPasswdRaises ==
    (joined.done /\ joined.paths = <<<<"a">>, EtcPasswd>>) => joined.raised

\* a plain name segment: not empty, no separator, no dot
PlainSegment(seg) ==
    Len(seg) > 0 /\ \A i \in 1..Len(seg) : seg[i] \notin {"/", "."}
PlainSegments(paths) ==
    Len(paths) > 0 /\ \A i \in 1..Len(paths) : PlainSegment(paths[i])

\* C14: for plain name segments safe_join(base, s1, ..., sn) returns
\* base + "/" + s1 + "/" + ... + sn (base taken without trailing separators).
C14_PlainSegmentsJoined ==
    (joined.done /\ PlainSegments(joined.paths)) =>
        /\ ~joined.raised
        /\ joined.path
               = RStrip(joined.base, {"/"}) \o Slash \o JoinSlash(joined.paths)

\* C14 for bases that do not start with a separator and are not empty
C14_PlainSegmentsRelativeBase ==
    (/\ joined.done
     /\ PlainSegments(joined.paths)
     /\ Len(RStrip(joined.base, {"/"})) > 0
     /\ ~StartsWith(joined.base, Slash)) =>
        /\ ~joined.raised
        /\ joined.path
               = RStrip(joined.base, {"/"}) \o Slash \o JoinSlash(joined.paths)

\* the running path after the first i segments is base_path or under it
RunningInside(base, paths, i) ==
    LET base_path == RStrip(base, {"/"})
        running == JoinAll(base_path \o Slash, SubSeq(paths, 1, i))
    IN  running = base_path \/ UnderBase(running, base_path)

\* C15: when the running normalized path leaves base after any segment the call
\* fails, even if a later segment brings the path back inside base.
C15_CheckedAfterEachSegment ==
    (joined.done /\ \E i \in 1..Len(joined.paths) :
                        ~RunningInside(joined.base, joined.paths, i))
        => joined.raised

\* the entries list_files returns for file f
ListedEntries(ds, st, f) ==
    LET files == list_files(ds, st)
    IN  {files[i] : i \in {j \in 1..Len(files) : files[j].file = f}}

\* right after the upload by p wrote the physical file w, the latest version of
\* the key exists, holds the bytes of w, and is listed with their size and digest
RoundTrip(p) ==
    LET f == up[p].file
        w == CHOOSE g \in store'[f] : g.mtime = clock'
        latest == get_latest_version(store'[f])
    IN  /\ latest # None
        /\ latest.data = w.data
        /\ \E e \in ListedEntries(dirs', store', f) :
              e.size = Len(w.data) /\ e.md5sum = Md5(w.data)

\* C16: immediately after upload_fileobj wrote content C under a key, the latest
\* version resolved for the key (get_latest_version, list_files) exists, holds
\* exactly C, and its digest is the digest of C.
C16_RoundTrip ==
    [][\A p \in Procs : Uploaded(p) => RoundTrip(p)]_vars

\* C16 for one sequential caller and keys whose basename holds a dot
C16_RoundTripDotted ==
    [][\A p \in Procs :
          (Uploaded(p) /\ MatchesStarDotStar(up[p].file)) => RoundTrip(p)]_vars

\* C17: looking up the latest version of a key with zero versions (container
\* missing, or present and empty) gives an explicit absent value and never
\* raises, in get_latest_version, check_file_path and
\* get_project_file_with_versions.
C17_AbsentNotError ==
    \A f \in Filenames :
        store[f] = {} =>
            /\ get_latest_version(store[f]) = None
            /\ check_file_path(dirs, store, f) = None
            /\ get_project_file_with_versions(dirs, store, f) = None

\* C17 for get_latest_version alone
C17_LatestVersionAbsent ==
    \A f \in Filenames : store[f] = {} => get_latest_version(store[f]) = None

\* C17 for keys whose container does not exist
C17_AbsentWithoutContainer ==
    \A f \in Filenames :
        f \notin dirs =>
            /\ check_file_path(dirs, store, f) = None
            /\ get_project_file_with_versions(dirs, store, f) = None

\* the physical file of the latest version of a container: the listed file
\* with the highest id
LatestFiles(content) ==
    {g \in Listed(content) : get_version_id(g.fname) = MaxOf(ListedIds(content))}

\* C18: purge_old_file_versions never deletes the latest version of a file:
\* after the call, completed or aborted, every file that had versions still has
\* the version that was its latest.
C18_PurgeKeepsLatest ==
    [][\A k \in KeepCounts :
          purge_old_file_versions(k) =>
              \A f \in Filenames :
                  ListedIds(store[f]) # {} => LatestFiles(store[f]) \subseteq store'[f]]_vars

\* a purge that aborted on a latest version after it had deleted older ones
C18_Witness ==
    /\ last.op = "purge"
    /\ last.result = "Latest"
    /\ last.deleted # {}
    /\ \A d \in last.deleted : ListedIds(store[d[1]]) # {}

\* C19: when purge_old_file_versions aborts (a version to delete is the latest,
\* or a key fails the shape check) it has no side effect: no version is deleted
\* and the stored-byte counter is unchanged.
C19_AbortedPurgeNoEffect ==
    [][\A k \in KeepCounts :
          (purge_old_file_versions(k) /\ last'.result # "ok")
              => (store' = store /\ file_storage_bytes' = file_storage_bytes)]_vars

\* C19, the counter only
C19_AbortedPurgeKeepsCounter ==
    [][\A k \in KeepCounts :
          (purge_old_file_versions(k) /\ last'.result # "ok")
              => file_storage_bytes' = file_storage_bytes]_vars

\* C20: delete_project_file_version_permanently is all-or-nothing: when a step
\* fails (the shape check of a collected version, the audit write, a blob
\* deletion) every version that existed before the call still exists.
C20_AllOrNothing ==
    [][\A f \in Filenames, v \in VersionIds, o \in BOOLEAN :
          (/\ delete_project_file_version_permanently(f, v, o)
           /\ last'.result \in {"Suspicious", "StorageError"})
              => store' = store]_vars

\* C20 for the audit log: a failed call commits no audit entry
C20_FailedCallNoAudit ==
    [][\A f \in Filenames, v \in VersionIds, o \in BOOLEAN :
          (/\ delete_project_file_version_permanently(f, v, o)
           /\ last'.result \in {"Suspicious", "StorageError"})
              => auditlog' = auditlog]_vars

\* the step is a call of one of the two operations that update the counter
DeleteOrPurgeStep ==
    \/ \E f \in Filenames, v \in VersionIds, o \in BOOLEAN :
          delete_project_file_version_permanently(f, v, o)
    \/ \E k \in KeepCounts : purge_old_file_versions(k)

\* C21: in delete_project_file_version_permanently and purge_old_file_versions
\* the counter update and the audit entries are committed together or not at
\* all: a call that deleted versions and changed the counter has committed
\* audit entries, and a call that committed audit entries leaves the counter
\* recomputed from the store.
C21_CounterWithAudit ==
    [][DeleteOrPurgeStep /\ last'.deleted # {} =>
          /\ file_storage_bytes' # file_storage_bytes => auditlog' # auditlog
          /\ auditlog' # auditlog
                 => file_storage_bytes' = StorageSize(dirs', store')]_vars

\* C21 for delete_project_file_version_permanently alone: its audit entries
\* are never committed without the counter update
C21_DeleteVersionCounterWithAudit ==
    [][\A f \in Filenames, v \in VersionIds, o \in BOOLEAN :
          delete_project_file_version_permanently(f, v, o) /\ auditlog' # auditlog
              => file_storage_bytes' = StorageSize(dirs', store')]_vars

\* C21 for purge_old_file_versions alone: a purge that deleted versions and
\* changed the counter has committed audit entries
C21_PurgeCounterWithAudit ==
    [][\A k \in KeepCounts :
          purge_old_file_versions(k) /\ last'.deleted # {}
              /\ file_storage_bytes' # file_storage_bytes
              => auditlog' # auditlog]_vars

\* the committed audit entries old digest -> null of version version_id of
\* `file`, a version of the store st
AuditEntriesOf(log, st, file, version_id) ==
    {e \in log : \E f \in st[file] :
          /\ get_version_id(f.fname) = version_id
          /\ e = AuditEntry(file, <<f.mtime>>, Md5(f.data))}

\* C22: every version permanently deleted by a successfully completed
\* delete_project_file_version_permanently or purge_old_file_versions has
\* exactly one committed audit entry recording old digest -> null.
C22_DeletedVersionsAudited ==
    [][DeleteOrPurgeStep /\ last'.result = "ok" =>
          \A d \in last'.deleted :
              Cardinality(AuditEntriesOf(auditlog', store, d[1], d[2])) = 1]_vars

\* C22 for delete_project_file_version_permanently alone
C22_DeleteVersionAudited ==
    [][\A fn \in Filenames, v \in VersionIds, o \in BOOLEAN :
          delete_project_file_version_permanently(fn, v, o) /\ last'.result = "ok"
              => \A d \in last'.deleted :
                    Cardinality(AuditEntriesOf(auditlog', store, d[1], d[2])) = 1]_vars

\* C23: after delete_all_project_files_permanently(project_id) completes, no
\* version of any object whose key starts with projects/<project_id>/ remains
\* in the store.
C23_ProjectErased ==
    [][\A project_id \in ProjectIds :
          (delete_all_project_files_permanently(project_id)
               /\ bucket'.raised = "no")
              => \A v \in bucket'.versions :
                    ~StartsWith(v.key, ProjectPrefix(project_id))]_vars

\* C23 for delete_stored_package: after the call no version under the
\* package's prefix remains
C23_PackageErased ==
    [][\A project_id \in ProjectIds, package_id \in PackageIds :
          (delete_stored_package(project_id, package_id) /\ bucket'.raised = "no")
              => \A v \in bucket'.versions :
                    ~StartsWith(v.key, PackagePrefix(project_id, package_id))]_vars

\* a project id of the shape 8-4-4-4-12, a package id made of word characters,
\* a key under a project of that shape
UuidShaped(project_id) ==
    /\ Len(project_id) = 36
    /\ \A i \in 1..36 :
          IF i \in {9, 14, 19, 24} THEN project_id[i] = "-"
          ELSE project_id[i] \in WordChars
WordShaped(package_id) ==
    Len(package_id) > 0 /\ \A i \in 1..Len(package_id) : package_id[i] \in WordChars
KeyUnderProject(key) ==
    \E project_id \in ProjectIds :
        /\ UuidShaped(project_id)
        /\ StartsWith(key, ProjectPrefix(project_id))
        /\ Len(key) > Len(ProjectPrefix(project_id))
\* the call raised the safety error and the bucket is as it was
Rejected ==
    /\ bucket'.raised = "RuntimeError"
    /\ bucket'.versions = bucket.versions
    /\ bucket'.markers = bucket.markers

\* C24: delete_all_project_files_permanently, delete_stored_package and the
\* key check of delete_project_file_permanently raise and delete no object when
\* the prefix or key has not the shape of their scope, and the helpers
\* _delete_by_prefix_* and _delete_by_key_* raise and delete nothing for an
\* argument that is not a string, is empty or is "/".
C24_TargetValidated ==
    [][/\ \A project_id \in ProjectIds :
             (delete_all_project_files_permanently(project_id)
                  /\ ~UuidShaped(project_id)) => Rejected
       /\ \A project_id \in ProjectIds, package_id \in PackageIds :
             (delete_stored_package(project_id, package_id)
                  /\ ~(UuidShaped(project_id) /\ WordShaped(package_id)))
                 => Rejected
       /\ \A key \in BucketKeys :
             (delete_file_key_permanently(key) /\ ~KeyUnderProject(key))
                 => Rejected
       /\ \A arg \in {NoneArg, <<>>, Slash} :
             (\/ DeleteByPrefixVersioned(arg)
              \/ DeleteByPrefixPermanently(arg)
              \/ DeleteByKeyVersioned(arg)
              \/ DeleteByKeyPermanently(arg)) => Rejected]_vars

\* C24 witness: delete_all_project_files_permanently or delete_stored_package
\* has raised on a bucket that holds objects
C24_Witness ==
    /\ bucket.op \in {"delete_all", "delete_package"}
    /\ bucket.raised = "RuntimeError"
    /\ bucket.versions # {}

\* the call failed with the not-found error and changed nothing
NotFoundNoChange ==
    /\ last'.result = "NotFound"
    /\ UNCHANGED <<dirs, store, file_storage_bytes, project_filename, auditlog>>

\* C25: a deletion whose target does not exist fails with the not-found error
\* and changes nothing: both delete functions when the file has no version,
\* and delete_project_file_version_permanently when the file has versions but
\* none with the given version_id.
C25_MissingTargetNotFound ==
    [][/\ \A f \in Filenames :
             (delete_project_file_permanently(f) /\ store[f] = {})
                 => NotFoundNoChange
       /\ \A f \in Filenames, v \in VersionIds, o \in BOOLEAN :
             (delete_project_file_version_permanently(f, v, o)
                  /\ v \notin Ids(store[f])) => NotFoundNoChange]_vars

\* C25 for a file without any version
C25_MissingFileNotFound ==
    [][\A f \in Filenames :
          /\ (delete_project_file_permanently(f) /\ store[f] = {})
                => NotFoundNoChange
          /\ \A v \in VersionIds, o \in BOOLEAN :
                (delete_project_file_version_permanently(f, v, o) /\ store[f] = {})
                    => NotFoundNoChange]_vars

\* C25 for a file that is listed with its versions and has none with the
\* given version_id
C25_MissingVersionNotFound ==
    [][\A f \in Filenames, v \in VersionIds, o \in BOOLEAN :
          (/\ delete_project_file_version_permanently(f, v, o)
           /\ get_project_file_with_versions(dirs, store, f) \notin {None, IndexError}
           /\ v \notin Ids(store[f])) => last'.result # "ok"]_vars

\* the entry list_files_with_versions gives a file whose container holds
\* `content`: None when the file is not listed
EntryOf(content, file) ==
    LET latest_version == get_latest_version(content)
    IN  IF latest_version = None THEN None
        ELSE LET f == create_file_object(latest_version, file, ListName(file), TRUE)
             IN  [latest |-> f,
                  versions |-> VersionObjects(content, file, f.name, f.version_id)]
LatestOf(content, file) ==
    IF EntryOf(content, file) = None THEN None ELSE EntryOf(content, file).latest
\* the listing takes its last step; exactly one upload, and nothing else, has
\* changed the container since the listing began
ListingReturns == rd.pc # "done" /\ rd'.pc = "done"
OneUploadSince(pre, now) == \E g \in now \ pre : now = pre \cup {g}

\* C26: list_files_with_versions running beside one upload to the same key
\* returns for that key the entry of the state before the upload or the entry
\* of the state after it: latest, version list and is_latest flags of one state.
C26_PreOrPostUpload ==
    [][(ListingReturns /\ ~rd'.error /\ OneUploadSince(rd.pre, store[rd.file]))
          => rd'.entry \in {EntryOf(rd.pre, rd.file),
                            EntryOf(store[rd.file], rd.file)}]_vars

\* C26 for list_files: the latest version it returns beside one upload is that
\* of the state before or after the upload
C26_ListFilesPreOrPostUpload ==
    [][(/\ rd.pc = "globbed" /\ rd'.pc = "listed"
        /\ OneUploadSince(rd.pre, store[rd.file]))
          => rd'.latest \in {LatestOf(rd.pre, rd.file),
                             LatestOf(store[rd.file], rd.file)}]_vars

\* the version object was made of a file the container held at a step of the
\* listing
SeenVersion(v) ==
    \E g \in rd'.seen : v = create_file_object(g, rd.file, v.name, v.is_latest)

\* C27: a listing beside deletions of a version, of the file or of the project
\* completes without error, and every version it returns was in the store at
\* some point of the call.
C27_ListingSurvivesDeletion ==
    [][ListingReturns =>
          /\ ~rd'.error
          /\ rd'.entry # None =>
                /\ SeenVersion(rd'.entry.latest)
                /\ \A i \in 1..Len(rd'.entry.versions) :
                      SeenVersion(rd'.entry.versions[i])]_vars

\* C27 without the error: the versions of a listing that completed were in the
\* store at some point of the call
C27_ReturnedVersionsSeen ==
    [][(ListingReturns /\ rd'.entry # None) =>
          /\ SeenVersion(rd'.entry.latest)
          /\ \A i \in 1..Len(rd'.entry.versions) :
                SeenVersion(rd'.entry.versions[i])]_vars

\* C28: get_sha256 and get_md5sum return with the stream's read position at
\* the start, for an empty stream, one shorter than a block and one of several
\* blocks, and a second call of the same function on the stream returns the
\* same digest, that of the whole content.
C28_PositionRestored ==
    /\ stream.pos = 0
    /\ \A i \in 1..Len(stream.digests) :
          stream.digests[i][2] = [from |-> 0, to |-> stream.len]
    /\ \A i, j \in 1..Len(stream.digests) :
          stream.digests[i][1] = stream.digests[j][1]
              => stream.digests[i] = stream.digests[j]

\* C28 witness: the same function has hashed twice a stream of several blocks
C28_Witness ==
    /\ stream.len > 2 * BLOCKSIZE
    /\ stream.kind = "file"
    /\ Len(stream.digests) = 2
    /\ stream.digests[1][1] = "sha256"
    /\ stream.digests[2][1] = "sha256"

\* the sequence holds every file of `content` once, ascending by the number
\* its name begins with
AllOnceAscending(versions, content) ==
    /\ {versions[i] : i \in 1..Len(versions)} = content
    /\ Len(versions) = Cardinality(content)
    /\ \A i, j \in 1..Len(versions) :
          i < j => get_version_id(versions[i].fname) < get_version_id(versions[j].fname)

\* C29: get_all_versions returns every version stored for a key, each once, in
\* ascending numeric order of version_id (10 after 9), for any set of stored
\* versions.
C29_AllVersionsAscending ==
    rd.pc = "done" => AllOnceAscending(rd.entry, store[rd.file])

\* C29 for the files whose name holds a dot
C29_DottedAllVersionsAscending ==
    (rd.pc = "done" /\ MatchesStarDotStar(rd.file))
        => AllOnceAscending(rd.entry, store[rd.file])

\* the entries are the latest versions of the files of `files` that hold a
\* version, one entry each, ascending by name
LatestEntriesOf(entries, files) ==
    /\ {entries[i].file : i \in 1..Len(entries)} = {f \in files : store[f] # {}}
    /\ \A i, j \in 1..Len(entries) :
          i < j => StrLess(entries[i].name, entries[j].name)
    /\ \A i \in 1..Len(entries) :
          /\ entries[i].version_id = MaxOf(Ids(store[entries[i].file]))
          /\ entries[i].is_latest

\* C30: list_files returns one entry per logical file under the prefix that
\* has at least one version, the entry being the file's latest version (the
\* maximum version_id), and the entries are sorted by name ascending.
C30_ListFilesLatestSorted ==
    LatestEntriesOf(list_files(dirs, store), Filenames)

\* C30 for the files whose name holds a dot
C30_DottedListFilesLatestSorted ==
    LET entries == list_files(dirs, store)
        dotted == [i \in 1..Len(entries) |-> MatchesStarDotStar(entries[i].file)]
    IN  /\ \A i \in 1..Len(entries) : dotted[i]
        /\ LatestEntriesOf(entries, {f \in Filenames : MatchesStarDotStar(f)})

\* the directories with the suffix that have no directory with the suffix
\* above them
ReachableContainers(t) ==
    {path \in t.dirs :
        /\ HasMarkerSuffix(path)
        /\ \A k \in 1..(Len(path) - 1) : ~HasMarkerSuffix(SubSeq(path, 1, k))}

\* C31: list_project_files returns exactly the directories carrying the suffix
\* .d that are reached through directories without it, at any depth, and
\* nothing inside a directory that carries it.
C31_ContainersReached ==
    tree.done => tree.all_files = ReachableContainers(tree)

\* C31 witness: a container three levels down has been listed from a tree that
\* also holds a directory inside a container
C31_Witness ==
    /\ tree.done
    /\ \E path \in tree.all_files : Len(path) = MaxDepth
    /\ \E path \in tree.dirs :
          Len(path) > 1 /\ HasMarkerSuffix(SubSeq(path, 1, Len(path) - 1))
                        /\ HasMarkerSuffix(path)
    /\ tree.files # {}

\* C32: in every reachable state get_project_files_count equals the number of
\* entries of get_project_files, and neither reports a file without a version.
C32_CountEqualsListing ==
    /\ get_project_files_count(dirs) = Len(get_project_files(dirs, store))
    /\ \A f \in list_project_files(dirs) : store[f] # {}
    /\ \A i \in 1..Len(get_project_files(dirs, store)) :
          store[get_project_files(dirs, store)[i].file] # {}

\* C32 for the files whose name holds a dot
C32_DottedCountEqualsListing ==
    LET dotted == {f \in Filenames : MatchesStarDotStar(f)}
    IN  Cardinality(list_project_files(dirs) \cap dotted)
            = Len(get_project_files(dirs \cap dotted, store))

\* C32 while no upload is between its makedirs and its write, for the files
\* whose name holds a dot
C32_DottedCountEqualsListingIdle ==
    AllIdle => C32_DottedCountEqualsListing

\* the listing reports no file without a version
C32_ListingReportsOnlyStored ==
    \A i \in 1..Len(get_project_files(dirs, store)) :
        store[get_project_files(dirs, store)[i].file] # {}


\* C33: delete_project_file_permanently on a file that has versions removes
\* every version of that file, leaves the versions of every other file as they
\* were, and afterwards the file is not found in the listing.
C33_FileErased ==
    [][\A f \in Filenames :
          (delete_project_file_permanently(f) /\ store[f] # {}) =>
              /\ store'[f] = {}
              /\ \A g \in Filenames \ {f} : store'[g] = store[g]
              /\ get_project_file_with_versions(dirs', store', f) = None]_vars

\* C33, the frame alone: no call of delete_project_file_permanently changes
\* the versions of another file
C33_OtherFilesUntouched ==
    [][\A f \in Filenames :
          delete_project_file_permanently(f) =>
              \A g \in Filenames \ {f} : store'[g] = store[g]]_vars

\* C33 for r.qgs, the file the lookup finds under its own name
C33_ReportErased ==
    [][(delete_project_file_permanently(ReportQgs) /\ store[ReportQgs] # {}) =>
           /\ store'[ReportQgs] = {}
           /\ get_project_file_with_versions(dirs', store', ReportQgs) = None]_vars

\* C33 in the key-space: the deletion by key of delete_project_file_permanently
\* removes the versions stored under exactly that key, and leaves every version
\* and deletion marker of every other key, the keys that start with it included
C33_PrefixKeysUntouched ==
    [][\A key \in BucketKeys :
          delete_file_key_permanently(key) =>
              /\ \A v \in bucket.versions :
                    v.key # key => v \in bucket'.versions
              /\ \A k \in bucket.markers : k # key => k \in bucket'.markers
              /\ bucket'.raised = "no" =>
                    \A v \in bucket'.versions : v.key # key]_vars


\* the lookup of `filename` returns the logical file of that name with
\* exactly the versions stored for it
FoundWithVersions(filename) ==
    LET r == get_project_file_with_versions(dirs, store, filename)
    IN  /\ r \notin {None, IndexError}
        /\ r.latest.file = filename
        /\ Len(r.versions) = Cardinality(store[filename])
        /\ {r.versions[i].version_id : i \in 1..Len(r.versions)} =
               Ids(store[filename])

\* C34: while no upload is in progress, get_project_file_with_versions
\* returns, for every filename that has versions, the logical file of that name
\* with exactly its stored versions.
C34_LookupFindsFile ==
    AllIdle => \A f \in Filenames : store[f] # {} => FoundWithVersions(f)

\* C34 for a filename that has no version: the lookup returns None
C34_MissingIsNone ==
    \A f \in Filenames :
       store[f] = {} => get_project_file_with_versions(dirs, store, f) = None

\* C34 for r.qgs, while no upload is in progress
C34_ReportLookupFindsFile ==
    AllIdle =>
       IF store[ReportQgs] # {} THEN FoundWithVersions(ReportQgs)
       ELSE get_project_file_with_versions(dirs, store, ReportQgs) = None

\* C34 for the file found: its name is the filename asked for
C34_FoundNameIsFilename ==
    \A f \in Filenames :
       LET r == get_project_file_with_versions(dirs, store, f)
       IN  r \notin {None, IndexError} => r.latest.name = f


\* C35: purge_old_file_versions deletes nothing from a file that has no more
\* versions than keep_count, whatever it purges from other files.
C35_FewVersionsKept ==
    [][\A k \in KeepCounts, f \in Filenames :
          (purge_old_file_versions(k) /\ Cardinality(store[f]) <= k)
              => store'[f] = store[f]]_vars

\* C35 witness: a purge has completed, has deleted versions of one file and
\* none of another file whose versions it listed
C35_Witness ==
    /\ last.op = "purge"
    /\ last.result = "ok"
    /\ last.deleted # {}
    /\ \E f \in {ReportQgs, NotesMd} :
          /\ store[f] # {}
          /\ \A d \in last.deleted : d[1] # f


\* the keys of the store under the directory of a project id
KeysOf(b, project_id) ==
    {v.key : v \in {w \in b.versions : StartsWith(w.key, ProjectPrefix(project_id))}}
\* the project ids found in the store that are UUIDs and have no row
OrphanedInStore == {d \in StorageDirs : KeysOf(bucket, d) # {} /\ IsUuid(d)
                                           /\ UuidStr(d) \notin cmd.db}

\* C36: a real run of deleteorphanedfiles with any limit deletes the files of
\* exactly the project ids found in the store that are UUIDs and have no
\* Project row.
C36_ExactlyOrphansDeleted ==
    [][\A limit \in Limits :
          Handle(FALSE, limit) =>
              \A d \in StorageDirs :
                 IF d \in OrphanedInStore
                 THEN KeysOf(bucket, d) \subseteq bucket'.markers
                 ELSE KeysOf(bucket, d) \cap bucket'.markers = {}]_vars

\* C36, the files of existing projects and of directories that are no UUID
\* are never deleted
C36_ExistingNeverDeleted ==
    [][\A limit \in Limits :
          Handle(FALSE, limit) =>
              \A d \in StorageDirs \ OrphanedInStore :
                 KeysOf(bucket, d) \cap bucket'.markers = {}]_vars

\* C36, the ids deleted do not depend on the batch size
C36_BatchSizeIndependent ==
    \A l1 \in Limits, l2 \in Limits :
       orphaned_ids(bucket, cmd.db, l1) = orphaned_ids(bucket, cmd.db, l2)

\* C36 for the orphaned projects that have a file with a dot in its name:
\* all their files are deleted
C36_ListedOrphansDeleted ==
    [][\A limit \in Limits :
          Handle(FALSE, limit) =>
              \A d \in OrphanedInStore :
                 (\E n \in ListedNames(bucket) : SubSeq(n, 1, 36) = d)
                     => KeysOf(bucket, d) \subseteq bucket'.markers]_vars

\* C37: a dry run leaves the store as it was and calls no deletion, and it
\* reports the ids a real run with the same limit deletes, in the same order.
C37_DryRunReportsOnly ==
    [][\A limit \in Limits :
          Handle(TRUE, limit) =>
              /\ bucket'.versions = bucket.versions
              /\ bucket'.markers = bucket.markers
              /\ cmd'.calls = <<>>
              /\ cmd'.report = handle(bucket, cmd.db, FALSE, limit).calls]_vars

\* C37 witness: a dry run has reported two orphaned projects
C37_Witness ==
    /\ cmd.op = "dry_run"
    /\ Len(cmd.report) >= 2
    /\ bucket.versions # {}
    /\ bucket.markers = {}


\* C38: in every reachable state, concurrent requests included, the project
\* has at most one PackageJob that is PENDING, QUEUED or STARTED.
C38_OneActiveJob ==
    Cardinality(ActiveJobs(pkg.jobs)) <= 1

\* C38, the step that creates: PackageView.post creates no job while another
\* job of the project is active
C38_NoCreateWhileActive ==
    [][\A p \in Procs : PostCreate(p) => ActiveJobs(pkg.jobs) = {}]_vars

====
